---- MODULE Spec2Model ----
(***************************************************************************)
(* Alphabet <-> Number quiz (src/script.js): the countdown Timer, the      *)
(* QuestionGenerator, the ScoreTracker and the QuizGame orchestrator,      *)
(* together with the browser's clock and its timer queue (setInterval /    *)
(* setTimeout) that drive them.                                            *)
(*                                                                         *)
(* Strings are sequences of one-character strings, so that trim,           *)
(* toUpperCase, parseInt and toString are computed, not assumed.           *)
(* Times are integers in milliseconds; NULL stands for null / undefined.   *)
(***************************************************************************)
EXTENDS Integers, Sequences, FiniteSets, TLC

\* ------------------------------------------------------------------------
\* CONFIG and the literal delays of the source
\* ------------------------------------------------------------------------
TOTAL_QUESTIONS == 10
QUESTION_TIME_LIMIT == 10
MIN_NUMBER == 1
MAX_NUMBER == 26
TICK_INTERVAL_MS == 1000
FEEDBACK_DELAY_MS == 2000
MS_PER_SECOND == 1000
\* SUBMISSION_LIMITS, and the delay after which isProcessing is reset
DEBOUNCE_MS == 500
MAX_RAPID_SUBMISSIONS == 5
RAPID_SUBMISSION_WINDOW == 2000
COOLDOWN_PERIOD == 3000
PROCESSING_RESET_MS == 1000

\* ------------------------------------------------------------------------
\* Bounds of the model (not program constants)
\* ------------------------------------------------------------------------
\* the clock runs up to MaxTime ms; a pause with nothing else pending lasts
\* ClockStep or LongStep ms
ClockStep == 1000
LongStep == 11000
MaxTime == 150000
\* what the user does in one behaviour besides starting a quiz and typing the correct
\* answer as soon as a question is shown: other submissions, pause / resume / focus
\* events, restarts, letting time pass
MaxDev == 2
\* such deviations happen on the first MaxFreeQuestions questions of a session
MaxFreeQuestions == 2
\* a Timer driven directly, as the timer tests drive it: at most MaxCalls calls of
\* start (with durations 0..MaxDuration s), stop, pause and resume and failures of
\* setInterval; the clock moves by at most one StepsPerTick-th of the tick interval
\* at a time, up to MaxTimerTime ms
MaxCalls == 4
\* a ScoreTracker driven directly: a log of at most MaxRecords records
MaxRecords == 4
\* a QuestionGenerator called directly: answers of at most MaxAnswerLen characters,
\* inputs of at most MaxInputLen characters
MaxAnswerLen == 2
MaxInputLen == 3
MaxDuration == 2
StepsPerTick == 2
MaxTimerTime == 8000
\* addTime is called with 1..MaxAdd seconds
MaxAdd == 1
\* the submit handler called directly: the clock moves by one StepsPerDebounce-th of the
\* debounce time, up to MaxSubmitTime ms
StepsPerDebounce == 1
MaxSubmitTime == 8000
NULL == -1

\* ------------------------------------------------------------------------
\* Strings
\* ------------------------------------------------------------------------
alphabet ==
    << "A", "B", "C", "D", "E", "F", "G", "H", "I", "J", "K", "L", "M",
       "N", "O", "P", "Q", "R", "S", "T", "U", "V", "W", "X", "Y", "Z" >>

LowerCase ==
    << "a", "b", "c", "d", "e", "f", "g", "h", "i", "j", "k", "l", "m",
       "n", "o", "p", "q", "r", "s", "t", "u", "v", "w", "x", "y", "z" >>

Digits == << "0", "1", "2", "3", "4", "5", "6", "7", "8", "9" >>

\* the absent value (null / undefined) where a string is expected
NullStr == << "<null>" >>

IndexIn(seq, c) == CHOOSE i \in 1..Len(seq) : seq[i] = c

IsMember(seq, c) == \E i \in 1..Len(seq) : seq[i] = c

\* String.prototype.toUpperCase, one character
UpperChar(c) == IF IsMember(LowerCase, c) THEN alphabet[IndexIn(LowerCase, c)] ELSE c

toUpperCase(s) == [i \in 1..Len(s) |-> UpperChar(s[i])]

IsSpace(c) == c = " "

RECURSIVE TrimLeft(_)
TrimLeft(s) == IF s # << >> /\ IsSpace(Head(s)) THEN TrimLeft(Tail(s)) ELSE s

RECURSIVE TrimRight(_)
TrimRight(s) ==
    IF s # << >> /\ IsSpace(s[Len(s)]) THEN TrimRight(SubSeq(s, 1, Len(s) - 1)) ELSE s

\* String.prototype.trim
trim(s) == TrimRight(TrimLeft(s))

IsDigit(c) == IsMember(Digits, c)

DigitValue(c) == IndexIn(Digits, c) - 1

\* the longest prefix of digits
RECURSIVE DigitPrefix(_)
DigitPrefix(s) ==
    IF s # << >> /\ IsDigit(Head(s)) THEN << Head(s) >> \o DigitPrefix(Tail(s)) ELSE << >>

RECURSIVE DigitsValue(_)
DigitsValue(s) ==
    IF s = << >> THEN 0 ELSE 10 * DigitsValue(SubSeq(s, 1, Len(s) - 1)) + DigitValue(s[Len(s)])

\* parseInt(s, 10): optional blanks, optional sign, the longest run of digits;
\* NaN when there is no digit
parseInt(s) ==
    LET t == TrimLeft(s)
        signed == t # << >> /\ Head(t) \in {"+", "-"}
        body == IF signed THEN Tail(t) ELSE t
        ds == DigitPrefix(body)
    IN  IF ds = << >>
        THEN [nan |-> TRUE, val |-> 0]
        ELSE [nan |-> FALSE,
              val |-> IF signed /\ Head(t) = "-" THEN 0 - DigitsValue(ds) ELSE DigitsValue(ds)]

RECURSIVE NatToString(_)
NatToString(n) ==
    IF n < 10 THEN << Digits[n + 1] >> ELSE NatToString(n \div 10) \o << Digits[(n % 10) + 1] >>

\* Number.prototype.toString
toString(n) == IF n < 0 THEN << "-" >> \o NatToString(0 - n) ELSE NatToString(n)

\* JavaScript truthiness of a string argument: false for null / undefined and ""
Truthy(s) == s # NullStr /\ s # << >>

\* ------------------------------------------------------------------------
\* QuestionGenerator
\* ------------------------------------------------------------------------
generateAlphabetToNumberQuestion(questionId, randomIndex) ==
    [ id |-> questionId,
      type |-> "alphabet-to-number",
      correctAnswer |-> toString(randomIndex + 1),
      displayValue |-> << alphabet[randomIndex + 1] >> ]

\* a number question whose letter is the next one
generateNumberToAlphabetQuestion_nextLetter(questionId, randomIndex) ==
    LET randomNumber == randomIndex + 1
    IN  [ id |-> questionId,
          type |-> "number-to-alphabet",
          correctAnswer |-> << alphabet[(randomNumber % Len(alphabet)) + 1] >>,
          displayValue |-> toString(randomNumber) ]

generateNumberToAlphabetQuestion(questionId, randomIndex) ==
    LET randomNumber == randomIndex + 1
    IN  [ id |-> questionId,
          type |-> "number-to-alphabet",
          correctAnswer |-> << alphabet[(randomNumber - 1) + 1] >>,
          displayValue |-> toString(randomNumber) ]

questionTypes == << "alphabet-to-number", "number-to-alphabet" >>

\* typeIndex and randomIndex are the two draws of Math.random
generateQuestion(questionId, typeIndex, randomIndex) ==
    IF questionTypes[typeIndex + 1] = "alphabet-to-number"
    THEN generateAlphabetToNumberQuestion(questionId, randomIndex)
    ELSE generateNumberToAlphabetQuestion(questionId, randomIndex)

\* a normalisation that keeps the letter case
normalizeAnswer_caseSensitive(answer) == trim(answer)

normalizeAnswer(answer) == toUpperCase(trim(answer))

validateAnswer(userAnswer, correctAnswer) ==
    IF ~Truthy(userAnswer) \/ ~Truthy(correctAnswer)
    THEN FALSE
    ELSE normalizeAnswer(userAnswer) = normalizeAnswer(correctAnswer)

isValidLetter(input) ==
    IF ~Truthy(input)
    THEN FALSE
    ELSE LET normalized == toUpperCase(trim(input))
         IN  Len(normalized) = 1 /\ IsMember(alphabet, normalized[1])

\* an isValidNumber that does not compare the number's rendering with the input
isValidNumber_prefixOnly(input) ==
    IF ~Truthy(input)
    THEN FALSE
    ELSE LET trimmed == trim(input)
             number == parseInt(trimmed)
         IN  /\ ~number.nan
             /\ number.val >= MIN_NUMBER
             /\ number.val <= MAX_NUMBER

isValidNumber(input) ==
    IF ~Truthy(input)
    THEN FALSE
    ELSE LET trimmed == trim(input)
             number == parseInt(trimmed)
         IN  /\ ~number.nan
             /\ toString(number.val) = trimmed
             /\ number.val >= MIN_NUMBER
             /\ number.val <= MAX_NUMBER

MsgEnterAnswer == "Please enter an answer"
MsgSingleLetter == "Please enter a single letter (A-Z)"
MsgNumberRange == "Please enter a number between 1 and 26"
NoMessage == "null"

validateInput(input, expectedType) ==
    IF ~Truthy(input) \/ trim(input) = << >>
    THEN [isValid |-> FALSE, errorMessage |-> MsgEnterAnswer]
    ELSE IF expectedType = "letter" /\ ~isValidLetter(input)
    THEN [isValid |-> FALSE, errorMessage |-> MsgSingleLetter]
    ELSE IF expectedType = "number" /\ ~isValidNumber(input)
    THEN [isValid |-> FALSE, errorMessage |-> MsgNumberRange]
    ELSE [isValid |-> TRUE, errorMessage |-> NoMessage]

\* ------------------------------------------------------------------------
\* ScoreTracker
\* ------------------------------------------------------------------------
Min(a, b) == IF a < b THEN a ELSE b
Max(a, b) == IF a > b THEN a ELSE b

ScoreTracker_constructor ==
    [ answerRecords |-> << >>, startTime |-> NULL, endTime |-> NULL, totalQuestions |-> 0 ]

initialize(st, totalQuestions, clock) ==
    [ answerRecords |-> << >>, startTime |-> clock, endTime |-> NULL,
      totalQuestions |-> totalQuestions ]

\* question is NullQuestion when gameState.questions has no such index
NullQuestion ==
    [ id |-> << NULL, NULL >>, type |-> "undefined", correctAnswer |-> NullStr,
      displayValue |-> NullStr ]

\* a recordAnswer that derives the timeout flag from the time used
recordAnswer_flagsFullTime(st, question, userAnswer, isCorrect, timeUsed, timedOut, clock) ==
    LET answerRecord ==
            [ questionNumber |-> Len(st.answerRecords) + 1,
              questionId |-> question.id,
              questionType |-> question.type,
              displayValue |-> question.displayValue,
              correctAnswer |-> question.correctAnswer,
              userAnswer |-> IF Truthy(userAnswer) THEN userAnswer ELSE << >>,
              isCorrect |-> isCorrect,
              timeUsed |-> Max(0, Min(timeUsed, QUESTION_TIME_LIMIT)),
              timedOut |-> timeUsed >= QUESTION_TIME_LIMIT,
              timestamp |-> clock ]
    IN  [st EXCEPT !.answerRecords = Append(@, answerRecord)]

\* a recordAnswer that numbers its records from 0
recordAnswer_zeroBased(st, question, userAnswer, isCorrect, timeUsed, timedOut, clock) ==
    IF question = NullQuestion
    THEN st
    ELSE LET answerRecord ==
                 [ questionNumber |-> Len(st.answerRecords),
                   questionId |-> question.id,
                   questionType |-> question.type,
                   displayValue |-> question.displayValue,
                   correctAnswer |-> question.correctAnswer,
                   userAnswer |-> IF Truthy(userAnswer) THEN userAnswer ELSE << >>,
                   isCorrect |-> isCorrect,
                   timeUsed |-> Max(0, Min(timeUsed, QUESTION_TIME_LIMIT)),
                   timedOut |-> timedOut,
                   timestamp |-> clock ]
         IN  [st EXCEPT !.answerRecords = Append(@, answerRecord)]

\* a recordAnswer that stores the time used as it is given
recordAnswer_unclamped(st, question, userAnswer, isCorrect, timeUsed, timedOut, clock) ==
    IF question = NullQuestion
    THEN st
    ELSE LET answerRecord ==
                 [ questionNumber |-> Len(st.answerRecords) + 1,
                   questionId |-> question.id,
                   questionType |-> question.type,
                   displayValue |-> question.displayValue,
                   correctAnswer |-> question.correctAnswer,
                   userAnswer |-> IF Truthy(userAnswer) THEN userAnswer ELSE << >>,
                   isCorrect |-> isCorrect,
                   timeUsed |-> timeUsed,
                   timedOut |-> timedOut,
                   timestamp |-> clock ]
         IN  [st EXCEPT !.answerRecords = Append(@, answerRecord)]

\* a recordAnswer without the check of its question
recordAnswer_unchecked(st, question, userAnswer, isCorrect, timeUsed, timedOut, clock) ==
    LET answerRecord ==
            [ questionNumber |-> Len(st.answerRecords) + 1,
              questionId |-> question.id,
              questionType |-> question.type,
              displayValue |-> question.displayValue,
              correctAnswer |-> question.correctAnswer,
              userAnswer |-> IF Truthy(userAnswer) THEN userAnswer ELSE << >>,
              isCorrect |-> isCorrect,
              timeUsed |-> Max(0, Min(timeUsed, QUESTION_TIME_LIMIT)),
              timedOut |-> timedOut,
              timestamp |-> clock ]
    IN  [st EXCEPT !.answerRecords = Append(@, answerRecord)]

\* `if (!question) throw new Error(...)`: the call ends there
recordAnswerThrows(question) == question = NullQuestion

\* the tracker after the call, whether it returned or threw
recordAnswer(st, question, userAnswer, isCorrect, timeUsed, timedOut, clock) ==
    IF recordAnswerThrows(question)
    THEN st
    ELSE LET answerRecord ==
                 [ questionNumber |-> Len(st.answerRecords) + 1,
                   questionId |-> question.id,
                   questionType |-> question.type,
                   displayValue |-> question.displayValue,
                   correctAnswer |-> question.correctAnswer,
                   userAnswer |-> IF Truthy(userAnswer) THEN userAnswer ELSE << >>,
                   isCorrect |-> isCorrect,
                   timeUsed |-> Max(0, Min(timeUsed, QUESTION_TIME_LIMIT)),
                   timedOut |-> timedOut,
                   timestamp |-> clock ]
         IN  [st EXCEPT !.answerRecords = Append(@, answerRecord)]

completeQuiz(st, clock) == [st EXCEPT !.endTime = clock]

ScoreTracker_reset(st) == ScoreTracker_constructor

Count(records, P(_)) == Cardinality({i \in 1..Len(records) : P(records[i])})

\* a rounding that drops the fraction
RoundDiv_truncates(n, d) == n \div d

\* Math.round of a non-negative quotient n / d
RoundDiv(n, d) == (2 * n + d) \div (2 * d)

\* getScore that counts every record that is not correct as incorrect
getScore_timeoutsAsIncorrect(st) ==
    LET correct == Count(st.answerRecords, LAMBDA r : r.isCorrect)
        incorrect == Count(st.answerRecords, LAMBDA r : ~r.isCorrect)
        timeout == Count(st.answerRecords, LAMBDA r : r.timedOut)
        total == Len(st.answerRecords)
    IN  [ correct |-> correct,
          incorrect |-> incorrect,
          timeout |-> timeout,
          total |-> total,
          percentage |-> IF total > 0 THEN RoundDiv(correct * 100, total) ELSE 0 ]

getScore(st) ==
    LET correct == Count(st.answerRecords, LAMBDA r : r.isCorrect)
        incorrect == Count(st.answerRecords, LAMBDA r : ~r.isCorrect /\ ~r.timedOut)
        timeout == Count(st.answerRecords, LAMBDA r : r.timedOut)
        total == Len(st.answerRecords)
    IN  [ correct |-> correct,
          incorrect |-> incorrect,
          timeout |-> timeout,
          total |-> total,
          percentage |-> IF total > 0 THEN RoundDiv(correct * 100, total) ELSE 0 ]

getAnswerStatus(record) ==
    IF record.timedOut THEN "timeout"
    ELSE IF record.isCorrect THEN "correct" ELSE "incorrect"

\* each record with its derived status (timePercentage is not modelled)
getDetailedResults(st) ==
    [ i \in 1..Len(st.answerRecords) |->
        [ record |-> st.answerRecords[i], status |-> getAnswerStatus(st.answerRecords[i]) ] ]

\* ------------------------------------------------------------------------
\* State
\* ------------------------------------------------------------------------
VARIABLES
    now,        \* the wall clock (Date.now / performance.now), ms
    tasks,      \* the browser's timer queue: armed setInterval / setTimeout tasks
    timer,      \* the Timer object's fields
    gameState,  \* the module-level gameState object
    game,       \* the QuizGame object's own fields
    tracker,    \* the ScoreTracker object's fields
    ui,         \* what the UIManager last showed
    listeners,  \* focus / visibility handler sets registered by setupFocusHandling
    user,       \* the environment's budgets (how much the user has done so far)
    tally,      \* what happened to the questions of this session, as the user saw it
    lastCall,   \* the operation that produced this state, with its argument
    fault,      \* the next setInterval call throws
    probe,      \* what the callbacks of a directly driven Timer have observed
    submissionState  \* the module-level submissionState object

vars ==
    << now, tasks, timer, gameState, game, tracker, ui, listeners, user, tally, lastCall,
       fault, probe, submissionState >>

\* the program's state as one value, so that a handler's calls compose
World ==
    [ now |-> now, tasks |-> tasks, timer |-> timer, gameState |-> gameState,
      game |-> game, tracker |-> tracker, ui |-> ui, listeners |-> listeners,
      fault |-> fault, probe |-> probe, submissionState |-> submissionState ]

Install(w) ==
    /\ now' = w.now
    /\ tasks' = w.tasks
    /\ timer' = w.timer
    /\ gameState' = w.gameState
    /\ game' = w.game
    /\ tracker' = w.tracker
    /\ ui' = w.ui
    /\ listeners' = w.listeners
    /\ fault' = w.fault
    /\ probe' = w.probe
    /\ submissionState' = w.submissionState

\* ------------------------------------------------------------------------
\* The browser's timer queue
\* ------------------------------------------------------------------------
TaskIds(ts) == {ts[i].id : i \in 1..Len(ts)}

\* a fresh handle, as setInterval / setTimeout return
NewId(ts) == CHOOSE i \in 1..(Len(ts) + 1) : i \notin TaskIds(ts)

setInterval(w, delay) ==
    [w EXCEPT !.tasks = Append(@, [kind |-> "interval", id |-> NewId(w.tasks),
                                    due |-> w.now + delay])]

setTimeout(w, kind, delay) ==
    [w EXCEPT !.tasks = Append(@, [kind |-> kind, id |-> NewId(w.tasks),
                                    due |-> w.now + delay])]

RECURSIVE RemoveId(_, _)
RemoveId(ts, id) ==
    IF ts = << >> THEN << >>
    ELSE IF Head(ts).id = id THEN RemoveId(Tail(ts), id)
    ELSE << Head(ts) >> \o RemoveId(Tail(ts), id)

clearInterval(w, id) == [w EXCEPT !.tasks = RemoveId(@, id)]

\* ------------------------------------------------------------------------
\* UIManager (what the orchestrator shows; the DOM itself is not modelled)
\* ------------------------------------------------------------------------
UIManager_constructor ==
    [ currentSection |-> "start", feedback |-> "", timerDisplay |-> NULL,
      controlsDisabled |-> FALSE, rendered |-> 0, results |-> << >>, broken |-> FALSE ]

\* AccessibilityManager.announce, which displayQuestion, showFeedback,
\* showTimeoutFeedback and renderResults end up calling: it throws, once, when the
\* announcer is broken
announceThrows(w) == w.ui.broken

announce(w) == [w EXCEPT !.ui.broken = FALSE]

showSection(w, sectionName) ==
    [w EXCEPT !.ui.currentSection = sectionName,
              !.ui.controlsDisabled = IF sectionName = "quiz" THEN FALSE ELSE @]

clearFeedback(w) == [w EXCEPT !.ui.feedback = ""]

showInputError(w, errorMessage) == [w EXCEPT !.ui.feedback = errorMessage]

showFeedback(w, isCorrect) ==
    [w EXCEPT !.ui.feedback = IF isCorrect THEN "correct" ELSE "incorrect"]

disableQuizControls(w) == [w EXCEPT !.ui.controlsDisabled = TRUE]

showTimeoutFeedback(w) == disableQuizControls([w EXCEPT !.ui.feedback = "timeout"])

updateTimer(w, timeRemaining) == [w EXCEPT !.ui.timerDisplay = timeRemaining]

displayQuestion(w, question) ==
    IF question = NullQuestion
    THEN w
    ELSE [clearFeedback(w) EXCEPT !.ui.controlsDisabled = FALSE]

renderResults(w, results) ==
    LET w1 == [w EXCEPT !.ui.rendered = @ + 1, !.ui.results = results]
    IN  showSection(w1, "results")

UIManager_reset(w) ==
    showSection(updateTimer(clearFeedback(w), QUESTION_TIME_LIMIT), "start")

\* ------------------------------------------------------------------------
\* Timer
\* ------------------------------------------------------------------------
\* a callback is a closure: the function and, for the callbacks of a directly driven
\* timer, the run they were created for
NoCallback == [ fn |-> "null", run |-> 0 ]

Timer_constructor ==
    [ duration |-> 0, timeRemaining |-> 0, intervalId |-> NULL, isRunning |-> FALSE,
      onTickCallback |-> NoCallback, onCompleteCallback |-> NoCallback,
      startTime |-> NULL, pausedTime |-> 0, isPaused |-> FALSE ]

getHighResolutionTime(w) == w.now

\* a stop that leaves the callbacks in place
Timer_stop_keepsCallbacks(w) ==
    LET w1 == IF w.timer.intervalId # NULL
              THEN [clearInterval(w, w.timer.intervalId) EXCEPT !.timer.intervalId = NULL]
              ELSE w
    IN  [w1 EXCEPT !.timer.isRunning = FALSE,
                   !.timer.isPaused = FALSE,
                   !.timer.timeRemaining = 0]

Timer_stop(w) ==
    LET w1 == IF w.timer.intervalId # NULL
              THEN [clearInterval(w, w.timer.intervalId) EXCEPT !.timer.intervalId = NULL]
              ELSE w
    IN  [w1 EXCEPT !.timer.isRunning = FALSE,
                   !.timer.isPaused = FALSE,
                   !.timer.timeRemaining = 0,
                   !.timer.onTickCallback = NoCallback,
                   !.timer.onCompleteCallback = NoCallback]

\* QuizGame.handleTimerTick, the only tick callback the orchestrator passes
handleTimerTick(w, timeRemaining) == updateTimer(w, timeRemaining)

\* the mock onTick of the timer tests, created for run `run`
onTick(w, run, timeRemaining) ==
    IF run \in w.probe.stoppedRuns
    THEN [w EXCEPT !.probe.afterStop = @ + 1]
    ELSE IF run # w.probe.run
    THEN [w EXCEPT !.probe.stale = @ + 1]
    ELSE [w EXCEPT !.probe.ticks = Append(@, timeRemaining)]

\* a mock callback that throws once it has noted the call
Throws(callback) == callback.fn \in {"onTickThrows", "onCompleteThrows"}

\* the state after the call of the tick callback, whether it returned or threw; a
\* callback that is not a function is not called, or the call throws at once
InvokeTick(w, callback, timeRemaining) ==
    IF callback.fn = "handleTimerTick" THEN handleTimerTick(w, timeRemaining)
    ELSE IF callback.fn \in {"onTick", "onTickThrows"}
    THEN onTick(w, callback.run, timeRemaining)
    ELSE w

isActive(w) == w.timer.isRunning

getTimeRemaining(w) == w.timer.timeRemaining

isPausedState(w) == w.timer.isPaused

getElapsedTime(w) ==
    IF ~w.timer.isRunning
    THEN 0
    ELSE LET currentTime == IF w.timer.isPaused THEN w.timer.pausedTime
                            ELSE getHighResolutionTime(w)
         IN  (currentTime - w.timer.startTime) \div MS_PER_SECOND

\* an addTime that forgets the time gone by
Timer_addTime_fromFullDuration(w, seconds) ==
    IF w.timer.isRunning
    THEN LET w1 == [w EXCEPT !.timer.duration = @ + seconds]
             w2 == [w1 EXCEPT !.timer.timeRemaining = Max(0, w1.timer.duration)]
         IN  InvokeTick(w2, w2.timer.onTickCallback, w2.timer.timeRemaining)
    ELSE w

Timer_addTime(w, seconds) ==
    IF w.timer.isRunning
    THEN LET w1 == [w EXCEPT !.timer.duration = @ + seconds]
             w2 == [w1 EXCEPT !.timer.timeRemaining =
                                 Max(0, w1.timer.duration - getElapsedTime(w1))]
         IN  InvokeTick(w2, w2.timer.onTickCallback, w2.timer.timeRemaining)
    ELSE w

\* a pause that leaves the interval armed
Timer_pause_keepsInterval(w) ==
    IF w.timer.isRunning /\ ~w.timer.isPaused
    THEN [w EXCEPT !.timer.isPaused = TRUE,
                   !.timer.pausedTime = getHighResolutionTime(w)]
    ELSE w

\* a pause that does not look at the state of the timer
Timer_pause_unguarded(w) ==
    LET w1 == [w EXCEPT !.timer.isPaused = TRUE,
                        !.timer.pausedTime = getHighResolutionTime(w)]
    IN  IF w1.timer.intervalId # NULL
        THEN [clearInterval(w1, w1.timer.intervalId) EXCEPT !.timer.intervalId = NULL]
        ELSE w1

Timer_pause(w) ==
    IF w.timer.isRunning /\ ~w.timer.isPaused
    THEN LET w1 == [w EXCEPT !.timer.isPaused = TRUE,
                             !.timer.pausedTime = getHighResolutionTime(w)]
         IN  IF w1.timer.intervalId # NULL
             THEN [clearInterval(w1, w1.timer.intervalId) EXCEPT !.timer.intervalId = NULL]
             ELSE w1
    ELSE w

\* ------------------------------------------------------------------------
\* QuizGame: timeout handling (the completion callback given to the timer)
\* ------------------------------------------------------------------------
\* handleTimerComplete that records the timeout and never schedules the advance
handleTimerComplete_noAdvance(w) ==
    IF \/ w.game.isWaitingForNextQuestion
       \/ w.gameState.status # "active"
       \/ w.game.currentQuestion = NullQuestion
    THEN w
    ELSE LET timeUsed == QUESTION_TIME_LIMIT
             w1 == [w EXCEPT !.tracker = recordAnswer(@, w.game.currentQuestion, << >>,
                                                      FALSE, timeUsed, TRUE, w.now)]
             w2 == disableQuizControls(showTimeoutFeedback(w1))
         IN  [w2 EXCEPT !.game.isWaitingForNextQuestion = TRUE]

handleTimerComplete(w) ==
    IF \/ w.game.isWaitingForNextQuestion
       \/ w.gameState.status # "active"
       \/ w.game.currentQuestion = NullQuestion
    THEN w
    ELSE LET timeUsed == QUESTION_TIME_LIMIT
             w1 == [w EXCEPT !.tracker = recordAnswer(@, w.game.currentQuestion, << >>,
                                                      FALSE, timeUsed, TRUE, w.now)]
             w2 == disableQuizControls(showTimeoutFeedback(w1))
             w3 == [w2 EXCEPT !.game.isWaitingForNextQuestion = TRUE]
         IN  \* the catch of handleTimerComplete only logs
             IF announceThrows(w1)
             THEN announce([w1 EXCEPT !.ui.feedback = "timeout"])
             ELSE setTimeout(w3, "advance", FEEDBACK_DELAY_MS)

\* the mock onComplete of the timer tests, created for run `run`
onComplete(w, run) ==
    IF run \in w.probe.stoppedRuns
    THEN [w EXCEPT !.probe.afterStop = @ + 1]
    ELSE IF run # w.probe.run
    THEN [w EXCEPT !.probe.stale = @ + 1]
    ELSE [w EXCEPT !.probe.completes = @ + 1]

\* the state after the call of the completion callback, whether it returned or threw
InvokeComplete(w, callback) ==
    IF callback.fn = "handleTimerComplete" THEN handleTimerComplete(w)
    ELSE IF callback.fn \in {"onComplete", "onCompleteThrows"}
    THEN onComplete(w, callback.run)
    ELSE w

\* stop() runs first, so the callback read afterwards is the cleared one
handleTimerError(w) ==
    LET w1 == Timer_stop(w)
    IN  InvokeComplete(w1, w1.timer.onCompleteCallback)

Timer_handleTimerComplete(w) ==
    LET callback == w.timer.onCompleteCallback
    IN  InvokeComplete(Timer_stop(w), callback)

\* a tick that does not catch what its tick callback throws
Timer_tick_uncaughtTick(w) ==
    IF ~w.timer.isRunning \/ w.timer.isPaused
    THEN w
    ELSE LET currentTime == getHighResolutionTime(w)
             elapsedTime == (currentTime - w.timer.startTime) \div MS_PER_SECOND
             w1 == [w EXCEPT !.timer.timeRemaining = Max(0, w.timer.duration - elapsedTime)]
             w2 == InvokeTick(w1, w1.timer.onTickCallback, w1.timer.timeRemaining)
             w3 == Timer_handleTimerComplete(w2)
         IN  IF Throws(w1.timer.onTickCallback)
             THEN handleTimerError(w2)
             ELSE IF w2.timer.timeRemaining <= 0
             THEN IF Throws(w2.timer.onCompleteCallback) THEN handleTimerError(w3) ELSE w3
             ELSE w2

\* what the tick callback throws is caught at once; what the completion callback
\* throws leaves handleTimerComplete and is caught by the outer handler
Timer_tick(w) ==
    IF ~w.timer.isRunning \/ w.timer.isPaused
    THEN w
    ELSE LET currentTime == getHighResolutionTime(w)
             elapsedTime == (currentTime - w.timer.startTime) \div MS_PER_SECOND
             w1 == [w EXCEPT !.timer.timeRemaining = Max(0, w.timer.duration - elapsedTime)]
             w2 == InvokeTick(w1, w1.timer.onTickCallback, w1.timer.timeRemaining)
             w3 == Timer_handleTimerComplete(w2)
         IN  IF w2.timer.timeRemaining <= 0
             THEN IF Throws(w2.timer.onCompleteCallback) THEN handleTimerError(w3) ELSE w3
             ELSE w2

\* setInterval as the timer calls it: it throws when the fault is armed (once)
Timer_resume(w) ==
    IF w.timer.isRunning /\ w.timer.isPaused
    THEN LET currentTime == getHighResolutionTime(w)
             pauseDuration == currentTime - w.timer.pausedTime
             w1 == [w EXCEPT !.timer.isPaused = FALSE,
                             !.timer.startTime = @ + pauseDuration]
         IN  IF w1.fault
             THEN handleTimerError([w1 EXCEPT !.fault = FALSE])
             ELSE [setInterval(w1, TICK_INTERVAL_MS) EXCEPT
                      !.timer.intervalId = NewId(w1.tasks)]
    ELSE w

\* a start that completes a zero-duration run before it returns
Timer_start_completesInline(w, duration, onCompleteCallback, onTickCallback) ==
    LET w0 == IF w.timer.isRunning THEN Timer_stop(w) ELSE w
        w1 == [w0 EXCEPT !.timer.duration = duration,
                         !.timer.timeRemaining = duration,
                         !.timer.onCompleteCallback = onCompleteCallback,
                         !.timer.onTickCallback = onTickCallback,
                         !.timer.isRunning = TRUE,
                         !.timer.startTime = getHighResolutionTime(w0),
                         !.timer.pausedTime = 0,
                         !.timer.isPaused = FALSE]
        w2 == InvokeTick(w1, w1.timer.onTickCallback, w1.timer.timeRemaining)
    IN  IF duration <= 0
        THEN Timer_handleTimerComplete(w2)
        ELSE IF w2.fault
        THEN handleTimerError([w2 EXCEPT !.fault = FALSE])
        ELSE [setInterval(w2, TICK_INTERVAL_MS) EXCEPT !.timer.intervalId = NewId(w2.tasks)]

Timer_start(w, duration, onCompleteCallback, onTickCallback) ==
    LET w0 == IF w.timer.isRunning THEN Timer_stop(w) ELSE w
        w1 == [w0 EXCEPT !.timer.duration = duration,
                         !.timer.timeRemaining = duration,
                         !.timer.onCompleteCallback = onCompleteCallback,
                         !.timer.onTickCallback = onTickCallback,
                         !.timer.isRunning = TRUE,
                         !.timer.startTime = getHighResolutionTime(w0),
                         !.timer.pausedTime = 0,
                         !.timer.isPaused = FALSE]
        w2 == InvokeTick(w1, w1.timer.onTickCallback, w1.timer.timeRemaining)
    IN  IF duration <= 0
        THEN setTimeout(w2, "timerComplete", 0)
        ELSE IF w2.fault
        THEN handleTimerError([w2 EXCEPT !.fault = FALSE])
        ELSE [setInterval(w2, TICK_INTERVAL_MS) EXCEPT !.timer.intervalId = NewId(w2.tasks)]

\* the handle setupFocusHandling returns removes one set of handlers
setupFocusHandling(w) == [w EXCEPT !.listeners = @ + 1]

timerCleanupFunction(w) == [w EXCEPT !.listeners = Max(0, @ - 1)]

\* ------------------------------------------------------------------------
\* QuizGame
\* ------------------------------------------------------------------------
QuizGame_constructor ==
    [ currentQuestion |-> NullQuestion, currentQuestionStartTime |-> NULL,
      isWaitingForNextQuestion |-> FALSE, timerCleanupFunction |-> FALSE ]

gameState_initial ==
    [ currentQuestionIndex |-> 0, questions |-> << >>, answers |-> << >>,
      status |-> "not-started", startTime |-> NULL, endTime |-> NULL ]

\* Math.random is a pseudo-random source: a session started at instant t consumes
\* sequence Seed(t) of it, whose draws for question i (0-based) are TypeDraw and
\* LetterDraw
Seed(t) == 1 + ((t \div MS_PER_SECOND) % 2)
TypeDraw(s, i) == (i \div s) % 2
LetterDraw(s, i) == (7 * i + 12 * s) % 26

\* a generation loop that stops one question early
generateAllQuestions_oneShort(w) ==
    LET s == Seed(w.now)
    IN  [ k \in 1..(TOTAL_QUESTIONS - 1) |->
            generateQuestion(<< w.now, k >>, TypeDraw(s, k - 1), LetterDraw(s, k - 1)) ]

generateAllQuestions(w) ==
    LET s == Seed(w.now)
    IN  [ k \in 1..TOTAL_QUESTIONS |->
            generateQuestion(<< w.now, k >>, TypeDraw(s, k - 1), LetterDraw(s, k - 1)) ]

\* gameState.questions[index], undefined when out of range
QuestionAt(questions, index) ==
    IF index + 1 \in 1..Len(questions) THEN questions[index + 1] ELSE NullQuestion

\* a handleError that reports the failure and leaves the session as it is
handleError_onlyReports(w, message) == showInputError(w, message)

handleError(w, message) ==
    LET w1 == showInputError(w, message)
    IN  IF w1.gameState.status = "active"
        THEN [Timer_stop(w1) EXCEPT !.gameState.status = "error"]
        ELSE w1

\* resetGameState that leaves the waiting latch as it is
resetGameState_keepsLatch(w) ==
    LET w1 == [w EXCEPT !.gameState = gameState_initial,
                        !.game.currentQuestion = NullQuestion,
                        !.game.currentQuestionStartTime = NULL,
                        !.tracker = ScoreTracker_reset(@)]
    IN  UIManager_reset(w1)

resetGameState(w) ==
    LET w1 == [w EXCEPT !.gameState = gameState_initial,
                        !.game.currentQuestion = NullQuestion,
                        !.game.currentQuestionStartTime = NULL,
                        !.game.isWaitingForNextQuestion = FALSE,
                        !.tracker = ScoreTracker_reset(@)]
    IN  UIManager_reset(w1)

endQuiz(w) ==
    LET w1 == Timer_stop(w)
        w2 == IF w1.game.timerCleanupFunction
              THEN [timerCleanupFunction(w1) EXCEPT !.game.timerCleanupFunction = FALSE]
              ELSE w1
        w3 == [w2 EXCEPT !.gameState.status = "completed",
                         !.gameState.endTime = w2.now,
                         !.tracker = completeQuiz(@, w2.now)]
        results == [ score |-> getScore(w3.tracker),
                     detailedResults |-> getDetailedResults(w3.tracker) ]
    IN  IF announceThrows(w3)
        THEN handleError(announce(renderResults(w3, results)),
                         "Failed to complete quiz. Please check your results.")
        ELSE renderResults(w3, results)

\* a nextQuestion that leaves a timer that is still running as it is
nextQuestion_reusesRunningTimer(w) ==
    IF w.gameState.currentQuestionIndex >= TOTAL_QUESTIONS
    THEN endQuiz(w)
    ELSE LET question == QuestionAt(w.gameState.questions, w.gameState.currentQuestionIndex)
             w2 == displayQuestion([w EXCEPT !.game.currentQuestion = question], question)
             w3 == [w2 EXCEPT !.game.currentQuestionStartTime = w2.now,
                              !.game.isWaitingForNextQuestion = FALSE]
             w4 == IF w3.timer.isRunning
                   THEN w3
                   ELSE Timer_start(w3, QUESTION_TIME_LIMIT,
                                    [fn |-> "handleTimerComplete", run |-> 0],
                                    [fn |-> "handleTimerTick", run |-> 0])
         IN  IF question = NullQuestion
             THEN handleError(w4, "Failed to load next question. Please try again.")
             ELSE w4

\* a nextQuestion that leaves the waiting latch as it is
nextQuestion_keepsLatch(w) ==
    IF w.gameState.currentQuestionIndex >= TOTAL_QUESTIONS
    THEN endQuiz(w)
    ELSE LET w1 == Timer_stop(w)
             question == QuestionAt(w1.gameState.questions, w1.gameState.currentQuestionIndex)
             w2 == displayQuestion([w1 EXCEPT !.game.currentQuestion = question], question)
             w3 == [w2 EXCEPT !.game.currentQuestionStartTime = w2.now]
             w4 == Timer_start(w3, QUESTION_TIME_LIMIT,
                               [fn |-> "handleTimerComplete", run |-> 0],
                               [fn |-> "handleTimerTick", run |-> 0])
         IN  IF question = NullQuestion
             THEN handleError(w4, "Failed to load next question. Please try again.")
             ELSE IF announceThrows(w2)
             THEN handleError(announce(w2), "Failed to load next question. Please try again.")
             ELSE w4

nextQuestion(w) ==
    IF w.gameState.currentQuestionIndex >= TOTAL_QUESTIONS
    THEN endQuiz(w)
    ELSE LET w1 == Timer_stop(w)
             question == QuestionAt(w1.gameState.questions, w1.gameState.currentQuestionIndex)
             w2 == displayQuestion([w1 EXCEPT !.game.currentQuestion = question], question)
             w3 == [w2 EXCEPT !.game.currentQuestionStartTime = w2.now,
                              !.game.isWaitingForNextQuestion = FALSE]
             w4 == Timer_start(w3, QUESTION_TIME_LIMIT,
                               [fn |-> "handleTimerComplete", run |-> 0],
                               [fn |-> "handleTimerTick", run |-> 0])
         IN  \* console.log reads currentQuestion.prompt: a TypeError when undefined
             IF question = NullQuestion
             THEN handleError(w4, "Failed to load next question. Please try again.")
             ELSE IF announceThrows(w2)
             THEN handleError(announce(w2), "Failed to load next question. Please try again.")
             ELSE w4

startQuiz(w) ==
    LET w1 == resetGameState(w)
        w2 == [w1 EXCEPT !.tracker = initialize(@, TOTAL_QUESTIONS, w1.now)]
        w3 == [w2 EXCEPT !.gameState.questions = generateAllQuestions(w2),
                         !.gameState.status = "active",
                         !.gameState.startTime = w2.now,
                         !.gameState.currentQuestionIndex = 0]
        w4 == [setupFocusHandling(w3) EXCEPT !.game.timerCleanupFunction = TRUE]
    IN  nextQuestion(showSection(w4, "quiz"))

ExpectedType(question) ==
    IF question.type = "alphabet-to-number" THEN "number" ELSE "letter"

\* submitAnswer without its two early returns
submitAnswer_unguarded(w, answer) ==
    LET expectedType == ExpectedType(w.game.currentQuestion)
        validation == validateInput(answer, expectedType)
    IN  IF w.game.currentQuestion = NullQuestion
        THEN w
        ELSE IF ~validation.isValid
        THEN showInputError(w, validation.errorMessage)
        ELSE LET timeUsed == (w.now - w.game.currentQuestionStartTime) \div MS_PER_SECOND
                 w1 == Timer_stop(w)
                 isCorrect == validateAnswer(answer, w1.game.currentQuestion.correctAnswer)
                 w2 == [w1 EXCEPT !.tracker = recordAnswer(@, w1.game.currentQuestion,
                                                  answer, isCorrect, timeUsed, FALSE, w1.now)]
                 w3 == disableQuizControls(showFeedback(w2, isCorrect))
                 w4 == [w3 EXCEPT !.game.isWaitingForNextQuestion = TRUE]
             IN  setTimeout(w4, "advance", FEEDBACK_DELAY_MS)

\* submitAnswer that records whatever was typed, without validating its format
submitAnswer_noValidation(w, answer) ==
    IF \/ w.game.isWaitingForNextQuestion
       \/ w.gameState.status # "active"
       \/ w.game.currentQuestion = NullQuestion
    THEN w
    ELSE IF ~isActive(w) \/ getTimeRemaining(w) <= 0
    THEN w
    ELSE LET timeUsed == (w.now - w.game.currentQuestionStartTime) \div MS_PER_SECOND
             w1 == Timer_stop(w)
             isCorrect == validateAnswer(answer, w1.game.currentQuestion.correctAnswer)
             w2 == [w1 EXCEPT !.tracker = recordAnswer(@, w1.game.currentQuestion,
                                              answer, isCorrect, timeUsed, FALSE, w1.now)]
             w3 == disableQuizControls(showFeedback(w2, isCorrect))
             w4 == [w3 EXCEPT !.game.isWaitingForNextQuestion = TRUE]
         IN  setTimeout(w4, "advance", FEEDBACK_DELAY_MS)

submitAnswer(w, answer) ==
    IF \/ w.game.isWaitingForNextQuestion
       \/ w.gameState.status # "active"
       \/ w.game.currentQuestion = NullQuestion
    THEN w
    ELSE IF ~isActive(w) \/ getTimeRemaining(w) <= 0
    THEN w
    ELSE LET expectedType == ExpectedType(w.game.currentQuestion)
             validation == validateInput(answer, expectedType)
         IN  IF ~validation.isValid
             THEN showInputError(w, validation.errorMessage)
             ELSE LET timeUsed == (w.now - w.game.currentQuestionStartTime) \div MS_PER_SECOND
                      w1 == Timer_stop(w)
                      isCorrect == validateAnswer(answer, w1.game.currentQuestion.correctAnswer)
                      w2 == [w1 EXCEPT !.tracker = recordAnswer(@, w1.game.currentQuestion,
                                                       answer, isCorrect, timeUsed, FALSE, w1.now)]
                      w3 == disableQuizControls(showFeedback(w2, isCorrect))
                      w4 == [w3 EXCEPT !.game.isWaitingForNextQuestion = TRUE]
                  IN  IF announceThrows(w2)
                      THEN handleError(announce(showFeedback(w2, isCorrect)),
                                       "Failed to process answer. Please try again.")
                      ELSE setTimeout(w4, "advance", FEEDBACK_DELAY_MS)

\* the delayed callback without its increment of currentQuestionIndex
AdvanceCallback_noIncrement(w) == nextQuestion(w)

\* the callback submitAnswer and handleTimerComplete pass to setTimeout
AdvanceCallback(w) ==
    nextQuestion([w EXCEPT !.gameState.currentQuestionIndex = @ + 1])

restartQuiz(w) ==
    LET w1 == Timer_stop(w)
        w2 == IF w1.game.timerCleanupFunction
              THEN [timerCleanupFunction(w1) EXCEPT !.game.timerCleanupFunction = FALSE]
              ELSE w1
    IN  showSection(resetGameState(w2), "start")

pauseQuiz(w) ==
    IF w.gameState.status = "active" /\ isActive(w) THEN Timer_pause(w) ELSE w

resumeQuiz(w) ==
    IF w.gameState.status = "active" /\ isPausedState(w) THEN Timer_resume(w) ELSE w

\* the handlers setupFocusHandling registers on blur / hidden and focus / visible
handleBlur(w) == IF w.listeners > 0 THEN Timer_pause(w) ELSE w

handleFocus(w) == IF w.listeners > 0 THEN Timer_resume(w) ELSE w

\* ------------------------------------------------------------------------
\* The environment: what the user types, and how much the user does
\* ------------------------------------------------------------------------
LowerChar(c) == IF IsMember(alphabet, c) THEN LowerCase[IndexIn(alphabet, c)] ELSE c

toLowerCase(s) == [i \in 1..Len(s) |-> LowerChar(s[i])]

\* the same answer in lower case between blanks
Variant(answer) == << " " >> \o toLowerCase(answer) \o << " " >>

\* a well-formed answer of the same kind that is not the correct one
WrongAnswer(question) ==
    IF ExpectedType(question) = "number"
    THEN toString((parseInt(question.correctAnswer).val % MAX_NUMBER) + 1)
    ELSE << alphabet[(IndexIn(alphabet, question.correctAnswer[1]) % 26) + 1] >>

\* an answer that is not well formed for the kind the question expects
MalformedAnswer(question) ==
    IF ExpectedType(question) = "number" THEN << "2", "7" >> ELSE << "A", "B" >>

UserInputs(question) ==
    IF question = NullQuestion
    THEN { << "A" >> }
    ELSE { question.correctAnswer, Variant(question.correctAnswer), WrongAnswer(question),
           MalformedAnswer(question), << >> }

\* ------------------------------------------------------------------------
\* Rapid submission protection
\* ------------------------------------------------------------------------
\* Date.now() when the page was loaded: the clock of the model counts from there
PageLoadTime == 1000000

submissionState_initial ==
    [ lastSubmissionTime |-> 0, submissionCount |-> 0, isProcessing |-> FALSE,
      debounceTimeout |-> NULL ]

\* a protection that does not look at isProcessing
handleRapidSubmissionProtection_ignoresProcessing(w) ==
    LET dateNow == PageLoadTime + w.now
        w1 == IF dateNow - w.submissionState.lastSubmissionTime > RAPID_SUBMISSION_WINDOW
              THEN [w EXCEPT !.submissionState.submissionCount = 0]
              ELSE w
        timeSinceLastSubmission == dateNow - w1.submissionState.lastSubmissionTime
        inCooldown == w1.submissionState.submissionCount >= MAX_RAPID_SUBMISSIONS
        w2 == IF inCooldown /\ timeSinceLastSubmission >= COOLDOWN_PERIOD
              THEN [w1 EXCEPT !.submissionState.submissionCount = 0]
              ELSE w1
        w3 == [w2 EXCEPT !.submissionState.lastSubmissionTime = dateNow,
                         !.submissionState.submissionCount = @ + 1,
                         !.submissionState.isProcessing = TRUE]
        w4 == IF w3.submissionState.debounceTimeout # NULL
              THEN [w3 EXCEPT !.tasks = SelectSeq(@, LAMBDA t :
                                  ~(t.id = w3.submissionState.debounceTimeout
                                    /\ t.kind = "processingReset"))]
              ELSE w3
        w5 == [setTimeout(w4, "processingReset", PROCESSING_RESET_MS) EXCEPT
                  !.submissionState.debounceTimeout = NewId(w4.tasks)]
    IN  IF inCooldown /\ timeSinceLastSubmission < COOLDOWN_PERIOD
        THEN [w |-> w1, executed |-> FALSE, allowed |-> FALSE]
        ELSE IF dateNow - w2.submissionState.lastSubmissionTime < DEBOUNCE_MS
        THEN [w |-> w2, executed |-> FALSE, allowed |-> FALSE]
        ELSE [w |-> w5, executed |-> TRUE, allowed |-> TRUE]

\* handleRapidSubmissionProtection(callback) with a callback that changes nothing:
\* the state after the call, whether the callback was executed, and what was returned.
\* clearTimeout only finds the timeout it was given: the browser does not reuse ids
handleRapidSubmissionProtection(w) ==
    LET dateNow == PageLoadTime + w.now
        w1 == IF dateNow - w.submissionState.lastSubmissionTime > RAPID_SUBMISSION_WINDOW
              THEN [w EXCEPT !.submissionState.submissionCount = 0]
              ELSE w
        timeSinceLastSubmission == dateNow - w1.submissionState.lastSubmissionTime
        inCooldown == w1.submissionState.submissionCount >= MAX_RAPID_SUBMISSIONS
        w2 == IF inCooldown /\ timeSinceLastSubmission >= COOLDOWN_PERIOD
              THEN [w1 EXCEPT !.submissionState.submissionCount = 0]
              ELSE w1
        w3 == [w2 EXCEPT !.submissionState.lastSubmissionTime = dateNow,
                         !.submissionState.submissionCount = @ + 1,
                         !.submissionState.isProcessing = TRUE]
        w4 == IF w3.submissionState.debounceTimeout # NULL
              THEN [w3 EXCEPT !.tasks = SelectSeq(@, LAMBDA t :
                                  ~(t.id = w3.submissionState.debounceTimeout
                                    /\ t.kind = "processingReset"))]
              ELSE w3
        w5 == [setTimeout(w4, "processingReset", PROCESSING_RESET_MS) EXCEPT
                  !.submissionState.debounceTimeout = NewId(w4.tasks)]
    IN  IF inCooldown /\ timeSinceLastSubmission < COOLDOWN_PERIOD
        THEN [w |-> w1, executed |-> FALSE, allowed |-> FALSE]
        ELSE IF dateNow - w2.submissionState.lastSubmissionTime < DEBOUNCE_MS
        THEN [w |-> w2, executed |-> FALSE, allowed |-> FALSE]
        ELSE IF w2.submissionState.isProcessing
        THEN [w |-> w2, executed |-> FALSE, allowed |-> FALSE]
        ELSE [w |-> w5, executed |-> TRUE, allowed |-> TRUE]

\* hidden: the page is hidden or the window has lost focus
user_initial == [ dev |-> 0, absent |-> "no", hidden |-> FALSE ]

\* nothing observed yet: no run started
probe_initial ==
    [ run |-> 0, duration |-> 0, ticks |-> << >>, completes |-> 0, stale |-> 0,
      afterStop |-> 0, stoppedRuns |-> {}, armFailed |-> FALSE, overPending |-> FALSE,
      active |-> 0, atPause |-> NULL, calls |-> 0, stops |-> 0,
      callbacks |-> << "null", "null" >> ]

\* questions the user answered correctly, answered wrongly, let run out
tally_initial == [ correct |-> 0, wrong |-> 0, timeout |-> 0 ]

\* a question is open: the session is active and its countdown has not been resolved
QuestionOpen ==
    /\ gameState.status = "active"
    /\ ~game.isWaitingForNextQuestion
    /\ timer.isRunning

\* the user is at the keyboard: not away for the question that is still open, nor
\* for the session that is still active
Present ==
    \/ user.absent = "no"
    \/ user.absent = "question" /\ ~QuestionOpen
    \/ user.absent = "session" /\ gameState.status # "active"

\* where the user may do something other than typing the correct answer
FreeZone ==
    \/ gameState.status # "active"
    \/ gameState.currentQuestionIndex < MaxFreeQuestions

CanDeviate == Present /\ FreeZone /\ user.dev < MaxDev

Deviated == [ dev |-> user.dev + 1, absent |-> "no", hidden |-> user.hidden ]

Acted == [ dev |-> user.dev, absent |-> "no", hidden |-> user.hidden ]

DueTasks == {i \in 1..Len(tasks) : tasks[i].due <= now}

\* ------------------------------------------------------------------------
\* Init and the actions
\* ------------------------------------------------------------------------
Init ==
    /\ now = 0
    /\ tasks = << >>
    /\ timer = Timer_constructor
    /\ gameState = gameState_initial
    /\ game = QuizGame_constructor
    /\ tracker = ScoreTracker_constructor
    /\ ui = UIManager_constructor
    /\ listeners = 0
    /\ user = user_initial
    /\ tally = tally_initial
    /\ lastCall = [op |-> "init", arg |-> << >>, open |-> FALSE]
    /\ fault = FALSE
    /\ probe = probe_initial
    /\ submissionState = submissionState_initial

\* handleStartQuiz: the start button; the first start of a behaviour is free
StartQuiz ==
    /\ Present
    /\ lastCall.op = "init" \/ CanDeviate
    /\ Install(startQuiz(World))
    /\ user' = IF lastCall.op = "init" THEN Acted ELSE Deviated
    /\ tally' = tally_initial
    /\ lastCall' = [op |-> "startQuiz", arg |-> << >>, open |-> FALSE]

\* handleRestartQuiz: the restart button
RestartQuiz ==
    /\ lastCall.op # "init"
    /\ CanDeviate
    /\ Install(restartQuiz(World))
    /\ user' = Deviated
    /\ tally' = tally_initial
    /\ lastCall' = [op |-> "restartQuiz", arg |-> << >>, open |-> FALSE]

\* submitAnswer(answer); typing the exact correct answer of the open question as soon
\* as it is shown is what the user does by default
SubmitAnswer ==
    /\ lastCall.op # "init"
    /\ Present
    /\ \E answer \in (IF QuestionOpen THEN UserInputs(game.currentQuestion)
                                       ELSE { << "A" >> }) :
        LET default == answer = game.currentQuestion.correctAnswer /\ QuestionOpen
        IN  /\ default \/ CanDeviate
            /\ Install(submitAnswer(World, answer))
            /\ user' = IF default THEN Acted ELSE Deviated
            /\ tally' = IF ~(QuestionOpen /\ timer.timeRemaining > 0) THEN tally
                         ELSE IF answer \in { game.currentQuestion.correctAnswer,
                                              Variant(game.currentQuestion.correctAnswer) }
                         THEN [tally EXCEPT !.correct = @ + 1]
                         ELSE IF answer = WrongAnswer(game.currentQuestion)
                         THEN [tally EXCEPT !.wrong = @ + 1]
                         ELSE tally
            /\ lastCall' = [op |-> "submitAnswer", arg |-> answer, open |-> QuestionOpen]

PauseQuiz ==
    /\ lastCall.op # "init"
    /\ CanDeviate
    /\ Install(pauseQuiz(World))
    /\ user' = Deviated
    /\ UNCHANGED tally
    /\ lastCall' = [op |-> "pauseQuiz", arg |-> << >>, open |-> FALSE]

ResumeQuiz ==
    /\ lastCall.op # "init"
    /\ CanDeviate
    /\ Install(resumeQuiz(World))
    /\ user' = Deviated
    /\ UNCHANGED tally
    /\ lastCall' = [op |-> "resumeQuiz", arg |-> << >>, open |-> FALSE]

\* the window loses focus or the page is hidden
Blur ==
    /\ listeners > 0
    /\ CanDeviate
    /\ Install(handleBlur(World))
    /\ user' = [Deviated EXCEPT !.hidden = TRUE]
    /\ UNCHANGED tally
    /\ lastCall' = [op |-> "blur", arg |-> << >>, open |-> FALSE]

\* the window regains focus or the page becomes visible
Focus ==
    /\ listeners > 0
    /\ CanDeviate
    /\ Install(handleFocus(World))
    /\ user' = [Deviated EXCEPT !.hidden = FALSE]
    /\ UNCHANGED tally
    /\ lastCall' = [op |-> "focus", arg |-> << >>, open |-> FALSE]

\* the user leaves the open question to its countdown, or walks away from a session
\* that has just started
Leave ==
    /\ Present
    /\ QuestionOpen
    /\ ~timer.isPaused
    /\ \/ /\ CanDeviate
          /\ user' = [user EXCEPT !.dev = @ + 1, !.absent = "question"]
       \/ /\ lastCall.op = "startQuiz"
          /\ user' = [user EXCEPT !.absent = "session"]
    /\ lastCall' = [op |-> "leave", arg |-> << >>, open |-> FALSE]
    /\ UNCHANGED << now, tasks, timer, gameState, game, tracker, ui, listeners, submissionState, tally, fault,
                   probe >>

\* a due task of the timer queue runs: the setInterval closure calls Timer.tick and
\* stays armed; a setTimeout closure runs once
RunTask ==
    \E i \in DueTasks :
        LET task == tasks[i]
            w0 == World
            w1 == IF task.kind = "interval"
                  THEN LET t == Timer_tick(w0)
                       IN  [t EXCEPT !.tasks =
                              [k \in 1..Len(@) |->
                                 IF @[k].id = task.id
                                 THEN [@[k] EXCEPT !.due = @ + TICK_INTERVAL_MS]
                                 ELSE @[k]]]
                  ELSE LET t == [w0 EXCEPT !.tasks = RemoveId(@, task.id)]
                       IN  IF task.kind = "advance"
                           THEN AdvanceCallback(t)
                           ELSE IF task.kind = "processingReset"
                           THEN [t EXCEPT !.submissionState.isProcessing = FALSE]
                           ELSE Timer_handleTimerComplete(t)
        IN  /\ Install(w1)
            /\ lastCall' = [op |-> task.kind, arg |-> << >>, open |-> FALSE]
            /\ tally' = IF QuestionOpen /\ task.kind = "interval" /\ ~w1.timer.isRunning
                         THEN [tally EXCEPT !.timeout = @ + 1]
                         ELSE tally
            /\ user' = IF user.absent = "question" /\ QuestionOpen /\ ~w1.timer.isRunning
                        THEN Acted
                        ELSE user

\* the moment the next task of the queue is due
NextDue == CHOOSE d \in {tasks[i].due : i \in 1..Len(tasks)} :
               \A i \in 1..Len(tasks) : tasks[i].due >= d

\* time passes: up to the moment the next task is due or, when the queue is empty
\* and the timer is paused, by a short or a long step counted from the pause.
\* A user at the keyboard who lets time pass on an open question deviates
ClockAdvance ==
    /\ \/ /\ tasks # << >>
          /\ NextDue > now
          /\ NextDue <= MaxTime
          /\ now' = NextDue
       \/ /\ tasks = << >>
          /\ timer.isPaused
          /\ now = timer.pausedTime
          /\ \E step \in {ClockStep, LongStep} :
                /\ now + step <= MaxTime
                /\ now' = now + step
    /\ LET waiting == QuestionOpen /\ ~timer.isPaused /\ Present
       IN  /\ waiting => CanDeviate
           /\ user' = IF waiting THEN [user EXCEPT !.dev = @ + 1] ELSE user
    /\ lastCall' = [op |-> "clock", arg |-> << >>, open |-> FALSE]
    /\ UNCHANGED << tasks, timer, gameState, game, tracker, ui, listeners, submissionState, tally, fault,
                   probe >>

Next ==
    \/ StartQuiz
    \/ RestartQuiz
    \/ SubmitAnswer
    \/ PauseQuiz
    \/ ResumeQuiz
    \/ Blur
    \/ Focus
    \/ Leave
    \/ RunTask
    \/ ClockAdvance

Spec == Init /\ [][Next]_vars

\* ------------------------------------------------------------------------
\* Properties
\* ------------------------------------------------------------------------
Records == tracker.answerRecords

Completed == gameState.status = "completed"

PendingAdvance == \E i \in 1..Len(tasks) : tasks[i].kind = "advance"

\* C1: no question of a session has more than one AnswerRecord, whoever produced it
\* (a submission or the timeout handler): the records of the log belong to
\* pairwise different questions of the session.
C1_OneRecordPerQuestion ==
    /\ \A i, j \in 1..Len(Records) :
          i # j => Records[i].questionId # Records[j].questionId
    /\ \A i \in 1..Len(Records) :
          \E k \in 1..Len(gameState.questions) :
              gameState.questions[k].id = Records[i].questionId

\* a log with a timed-out question and an answered one, just after a submission
C1_Witness ==
    /\ \E i \in 1..Len(Records) : Records[i].timedOut
    /\ \E i \in 1..Len(Records) : ~Records[i].timedOut
    /\ lastCall.op = "submitAnswer"
    /\ game.isWaitingForNextQuestion

\* C2: a completed session has exactly 10 detailed results, each with a status among
\* correct / incorrect / timeout, and timeout for every timed-out record.
C2_CompletedHasTenResults ==
    Completed =>
        LET results == getDetailedResults(tracker)
        IN  /\ Len(results) = 10
            /\ \A i \in 1..Len(results) :
                  /\ results[i].status \in {"correct", "incorrect", "timeout"}
                  /\ results[i].record.timedOut => results[i].status = "timeout"

\* C3: a submit made while the orchestrator waits for the delayed advance changes
\* neither the answer log, nor gameState (currentQuestionIndex), nor the latch, and
\* schedules nothing.
C3_SubmitWhileWaitingIsNoOp ==
    [][ ( /\ lastCall'.op = "submitAnswer"
          /\ gameState.status = "active"
          /\ game.isWaitingForNextQuestion )
        => ( /\ tracker' = tracker
             /\ gameState' = gameState
             /\ game' = game
             /\ tasks' = tasks
             /\ timer' = timer ) ]_vars

\* a second submit right after a correct one: still one record
C3_Witness ==
    /\ lastCall.op = "submitAnswer"
    /\ ~lastCall.open
    /\ gameState.status = "active"
    /\ game.isWaitingForNextQuestion
    /\ PendingAdvance
    /\ Len(Records) = 1
    /\ Records[1].isCorrect

\* C4: a submit made when the timer is not active, or its remaining time is 0,
\* appends no record and changes neither currentQuestionIndex nor the latch.
C4_SubmitAfterExpiryRejected ==
    [][ ( /\ lastCall'.op = "submitAnswer"
          /\ (~timer.isRunning \/ timer.timeRemaining <= 0) )
        => ( /\ Records' = Records
             /\ gameState'.currentQuestionIndex = gameState.currentQuestionIndex
             /\ game'.isWaitingForNextQuestion = game.isWaitingForNextQuestion ) ]_vars

\* a submit on a question whose countdown has run out
C4_Witness ==
    /\ lastCall.op = "submitAnswer"
    /\ ~lastCall.open
    /\ gameState.status = "active"
    /\ Len(Records) = gameState.currentQuestionIndex + 1
    /\ Records[Len(Records)].timedOut

\* C5: while active or completed, currentQuestionIndex <= number of records
\* <= currentQuestionIndex + 1.
C5_IndexFollowsRecords ==
    gameState.status \in {"active", "completed"} =>
        /\ gameState.currentQuestionIndex <= Len(Records)
        /\ Len(Records) <= gameState.currentQuestionIndex + 1

\* C6: currentQuestionIndex is always in 0..10.
C6_IndexInRange == gameState.currentQuestionIndex \in 0..TOTAL_QUESTIONS

C9_ScoreOfCompletedSession ==
    (Completed /\ tally.correct + tally.wrong + tally.timeout = TOTAL_QUESTIONS) =>
        getScore(tracker) =
            [ correct |-> tally.correct,
              incorrect |-> tally.wrong,
              timeout |-> tally.timeout,
              total |-> 10,
              percentage |-> 10 * tally.correct ]

\* a completed session with correct, wrong and timed-out questions
C9_Witness ==
    /\ Completed
    /\ tally.correct + tally.wrong + tally.timeout = TOTAL_QUESTIONS
    /\ tally.correct >= 1
    /\ tally.wrong >= 1
    /\ tally.timeout >= 1

FirstStart ==
    /\ lastCall.op = "init"
    /\ StartQuiz

\* the resume that follows a pause: resumeQuiz, or the focus handler
ResumeAfterPause ==
    /\ timer.isPaused
    /\ \/ Install(resumeQuiz(World))
       \/ Install(handleFocus(World))
    /\ lastCall' = [op |-> "resumeQuiz", arg |-> << >>, open |-> FALSE]
    /\ UNCHANGED << user, tally >>

SessionNext ==
    \/ FirstStart
    \/ SubmitAnswer
    \/ PauseQuiz
    \/ Blur
    \/ ResumeAfterPause
    \/ Leave
    \/ RunTask
    \/ ClockAdvance

\* a due task runs: no task stays due for ever (weak fairness of RunTask, whose
\* steps are those that leave a task kind in lastCall)
TaskFairness ==
    \/ []<>(DueTasks = {})
    \/ []<><< lastCall'.op \in {"interval", "advance", "timerComplete"} >>_vars

\* a user at the keyboard does not leave an open question unanswered for ever (weak
\* fairness of SubmitAnswer on an open question)
AnswerExpected ==
    /\ lastCall.op # "init"
    /\ Present
    /\ QuestionOpen
    /\ timer.timeRemaining > 0

AnswerFairness ==
    \/ []<>(~AnswerExpected)
    \/ []<><< lastCall'.op = "submitAnswer" >>_vars

SessionSpec ==
    /\ Init
    /\ [][SessionNext]_vars
    /\ WF_vars(ClockAdvance)
    /\ WF_vars(ResumeAfterPause)
    /\ TaskFairness
    /\ AnswerFairness

\* C11: a session that becomes active eventually completes, whether its questions are
\* answered or run out of time (a timeout moves on to the next question by itself).
C11_ActiveLeadsToCompleted ==
    (gameState.status = "active") ~> (gameState.status = "completed")

\* a session completed after a pause, with answered and timed-out questions
C11_Witness ==
    /\ Completed
    /\ Len(Records) = TOTAL_QUESTIONS
    /\ tally.timeout >= 1
    /\ tally.correct >= 1
    /\ user.dev = MaxDev

\* ------------------------------------------------------------------------
\* The timer of a question
\* ------------------------------------------------------------------------
IntervalTasks == {i \in 1..Len(tasks) : tasks[i].kind = "interval"}

\* C18: each time a question becomes current (a start, or an advance to an index
\* below 10) the timer starts from scratch: running, not paused, duration 10,
\* remaining 10, started at this instant with no paused time, with the orchestrator's
\* callbacks and exactly one repeating tick armed, one interval from now
C18_TimerRestartsPerQuestion ==
    [][ ( /\ lastCall'.op \in {"startQuiz", "advance"}
          /\ gameState'.status = "active"
          /\ gameState'.currentQuestionIndex < TOTAL_QUESTIONS
          /\ game'.currentQuestion # NullQuestion )
        => /\ timer'.isRunning
           /\ ~timer'.isPaused
           /\ timer'.duration = QUESTION_TIME_LIMIT
           /\ timer'.timeRemaining = QUESTION_TIME_LIMIT
           /\ timer'.startTime = now'
           /\ timer'.pausedTime = 0
           /\ timer'.onCompleteCallback = [fn |-> "handleTimerComplete", run |-> 0]
           /\ timer'.onTickCallback = [fn |-> "handleTimerTick", run |-> 0]
           /\ Cardinality(IntervalTasks') = 1
           /\ \A i \in IntervalTasks' : /\ tasks'[i].id = timer'.intervalId
                                        /\ tasks'[i].due = now' + TICK_INTERVAL_MS ]_vars

\* a question opened by an advance after an earlier question ran out of time
C18_Witness ==
    /\ lastCall.op = "advance"
    /\ gameState.status = "active"
    /\ gameState.currentQuestionIndex >= 2
    /\ tally.timeout >= 1
    /\ timer.isRunning
    /\ timer.startTime = now
    /\ timer.timeRemaining = QUESTION_TIME_LIMIT

\* ------------------------------------------------------------------------
\* The answer log
\* ------------------------------------------------------------------------
\* C19: every record of the log that is flagged timedOut is incorrect, has the empty
\* answer and the full 10 seconds as time used; a record appended by a submit is not
\* flagged timedOut
C19_TimedOutRecords ==
    [][ /\ \A i \in 1..Len(Records') :
              Records'[i].timedOut =>
                 /\ ~Records'[i].isCorrect
                 /\ Records'[i].userAnswer = << >>
                 /\ Records'[i].timeUsed = QUESTION_TIME_LIMIT
        /\ (lastCall'.op = "submitAnswer" /\ Len(Records') > Len(Records))
              => ~Records'[Len(Records')].timedOut ]_vars

\* a submit has just added a record to a log that holds a timed-out one
C19_Witness ==
    /\ lastCall.op = "submitAnswer"
    /\ lastCall.open
    /\ PendingAdvance
    /\ Len(Records) >= 2
    /\ \E i \in 1..(Len(Records) - 1) : Records[i].timedOut
    /\ ~Records[Len(Records)].timedOut
    /\ Records[Len(Records)].userAnswer = lastCall.arg

\* C32: every record has timeUsed in 0..10; the record a submit appends has the whole
\* seconds since the question became current, 10 when they are more (after a long
\* pause, for example)
C32_TimeUsedIsClamped ==
    [][ /\ \A i \in 1..Len(Records') :
              Records'[i].timeUsed \in 0..QUESTION_TIME_LIMIT
        /\ (lastCall'.op = "submitAnswer" /\ Len(Records') = Len(Records) + 1)
              => LET elapsed == (now - game.currentQuestionStartTime) \div MS_PER_SECOND
                 IN  Records'[Len(Records')].timeUsed =
                        (IF elapsed > QUESTION_TIME_LIMIT THEN QUESTION_TIME_LIMIT
                         ELSE elapsed) ]_vars

\* an answer submitted 11 seconds or more after its question was shown is in the log
\* with 10 seconds
C32_Witness ==
    /\ lastCall.op = "submitAnswer"
    /\ PendingAdvance
    /\ Records # << >>
    /\ now - game.currentQuestionStartTime > QUESTION_TIME_LIMIT * MS_PER_SECOND
    /\ ~Records[Len(Records)].timedOut
    /\ Records[Len(Records)].timeUsed = QUESTION_TIME_LIMIT

\* the ways of typing an answer: as it is, in lower case, between blanks, or both
AnswerForms(answer) ==
    { answer, toLowerCase(answer), << " " >> \o answer \o << " " >>, Variant(answer) }

\* every question the generator can produce, up to its id
AllQuestions ==
    { generateQuestion(0, typeIndex, randomIndex) :
         typeIndex \in 0..(Len(questionTypes) - 1), randomIndex \in 0..(Len(alphabet) - 1) }

\* validateInput and validateAnswer on every way of typing every correct answer
EveryFormAccepted ==
    \A question \in AllQuestions :
       \A typed \in AnswerForms(question.correctAnswer) :
          /\ validateInput(typed, ExpectedType(question)).isValid
          /\ validateAnswer(typed, question.correctAnswer)

\* C20: the correct answer of a question, typed in either letter case and with
\* blanks around it, passes the input validation of the expected kind and compares
\* equal to the correct answer; a submit of it while the question is open and has
\* time left appends a record with isCorrect = TRUE
C20_CorrectAnswerAccepted ==
    [][ ( /\ lastCall'.op = "submitAnswer"
          /\ QuestionOpen
          /\ game.currentQuestion # NullQuestion
          /\ getTimeRemaining(World) > 0 )
        => /\ game.currentQuestion.correctAnswer
                 \in {question.correctAnswer : question \in AllQuestions}
           /\ EveryFormAccepted
           /\ lastCall'.arg \in AnswerForms(game.currentQuestion.correctAnswer)
                 => /\ Len(Records') = Len(Records) + 1
                    /\ Records'[Len(Records')].isCorrect
                    /\ Records'[Len(Records')].userAnswer = lastCall'.arg
                    /\ Records'[Len(Records')].questionId = game.currentQuestion.id ]_vars

\* a lower-case letter between blanks has just been recorded as correct
C20_Witness ==
    /\ lastCall.op = "submitAnswer"
    /\ lastCall.open
    /\ Len(Records) >= 1
    /\ Records[Len(Records)].questionType = "number-to-alphabet"
    /\ Records[Len(Records)].userAnswer = Variant(Records[Len(Records)].correctAnswer)
    /\ Records[Len(Records)].userAnswer = lastCall.arg
    /\ Records[Len(Records)].userAnswer # Records[Len(Records)].correctAnswer
    /\ Records[Len(Records)].isCorrect

\* ------------------------------------------------------------------------
\* The questions of a session
\* ------------------------------------------------------------------------
InSession == gameState.status \in {"active", "completed"}

\* C21: a start generates exactly 10 questions; while the status is active or
\* completed the sequence has length 10, and no step other than a new start changes it
C21_QuestionsFixedAtStart ==
    [][ /\ lastCall'.op = "startQuiz" => Len(gameState'.questions) = TOTAL_QUESTIONS
        /\ InSession' => Len(gameState'.questions) = TOTAL_QUESTIONS
        /\ (InSession /\ InSession' /\ lastCall'.op # "startQuiz")
              => gameState'.questions = gameState.questions ]_vars

\* a session that reached its end through answers and a timeout
C21_Witness ==
    /\ Completed
    /\ lastCall.op = "advance"
    /\ tally.timeout >= 1
    /\ tally.correct >= 1
    /\ Len(gameState.questions) = TOTAL_QUESTIONS

\* C23: gameState.answers has one entry per resolved question: it grows by one on
\* each accepted submit and on each timeout, and has 10 entries when the status is
\* completed
C23_AnswersListFollowsResolutions ==
    [][ /\ ( /\ lastCall'.op \in {"submitAnswer", "interval", "timerComplete"}
             /\ Len(Records') = Len(Records) + 1 )
              => Len(gameState'.answers) = Len(gameState.answers) + 1
        /\ Completed' => Len(gameState'.answers) = TOTAL_QUESTIONS ]_vars

\* C24: while the page is hidden during an active session the countdown does not
\* advance: the timer is paused or not running after the focus loss and after every
\* timer task that runs while the page stays hidden, whether the focus was lost on an
\* open question or during the feedback delay; when focus returns to a paused timer
\* it runs again with the remaining time it had
C24_HiddenPageStopsCountdown ==
    [][ /\ ( /\ user'.hidden
             /\ gameState'.status = "active"
             /\ lastCall'.op \in {"blur", "interval", "timerComplete", "advance"} )
              => isPausedState(World') \/ ~isActive(World')
        /\ (lastCall'.op = "focus" /\ user.hidden /\ isPausedState(World))
              => /\ isActive(World')
                 /\ ~isPausedState(World')
                 /\ getTimeRemaining(World') = getTimeRemaining(World) ]_vars

\* C36: a delayed advance scheduled before the current session started (or left over
\* after a restart, with no session started since) has no effect when it runs: it
\* changes neither currentQuestionIndex nor the current question, and starts no timer
C36_StaleAdvanceHasNoEffect ==
    [][ \A i \in 1..Len(tasks) :
           ( /\ lastCall'.op = "advance"
             /\ tasks[i].kind = "advance"
             /\ \A k \in 1..Len(tasks') : tasks'[k] # tasks[i]
             /\ \/ gameState.status = "not-started"
                \/ tasks[i].due - FEEDBACK_DELAY_MS < gameState.startTime )
           => /\ gameState'.currentQuestionIndex = gameState.currentQuestionIndex
              /\ game'.currentQuestion = game.currentQuestion
              /\ timer' = timer ]_vars

\* C37: while the waiting latch is set the timer is not running and neither a tick nor
\* a zero-delay completion of the timer is scheduled: nothing of the timer can fire
\* between a resolution and the advance that follows it
C37_NoTimerWhileWaiting ==
    game.isWaitingForNextQuestion =>
        /\ ~timer.isRunning
        /\ \A i \in 1..Len(tasks) : tasks[i].kind \notin {"interval", "timerComplete"}

\* the feedback delay of a question that timed out is over, its advance has yet to run
C37_Witness ==
    /\ lastCall.op = "clock"
    /\ game.isWaitingForNextQuestion
    /\ gameState.status = "active"
    /\ PendingAdvance
    /\ DueTasks # {}
    /\ Records # << >>
    /\ Records[Len(Records)].timedOut

\* C38: a session is finalized once: once the status is completed, no step but a new
\* start or a restart renders the results again, completes the score tracker again or
\* changes gameState, and an advance that runs then leaves currentQuestionIndex alone
C38_FinalizedOnce ==
    [][ /\ (Completed /\ lastCall'.op \notin {"startQuiz", "restartQuiz"})
              => /\ ui'.rendered = ui.rendered
                 /\ tracker' = tracker
                 /\ gameState'.endTime = gameState.endTime
        /\ (Completed /\ lastCall'.op = "advance")
              => gameState'.currentQuestionIndex = gameState.currentQuestionIndex ]_vars

\* ------------------------------------------------------------------------
\* Unexpected failures inside the orchestrator
\* ------------------------------------------------------------------------
\* the announcer breaks: the next announcement throws inside whichever operation
\* makes it
BreakUI ==
    /\ lastCall.op = "init" \/ CanDeviate
    /\ ~ui.broken
    /\ ui' = [ui EXCEPT !.broken = TRUE]
    /\ user' = IF lastCall.op = "init" THEN user ELSE Deviated
    /\ lastCall' = [op |-> "breakUI", arg |-> << >>, open |-> FALSE]
    /\ UNCHANGED << now, tasks, timer, gameState, game, tracker, listeners, submissionState, tally, fault,
                    probe >>

FaultNext == Next \/ BreakUI

FaultSpec == Init /\ [][FaultNext]_vars

\* the step runs an operation in which the announcement throws while the session is
\* active: a start, a submit that is accepted, or an advance that opens a question
FailsMidSession ==
    /\ ui.broken
    /\ ~ui'.broken
    /\ \/ lastCall'.op = "startQuiz"
       \/ lastCall'.op = "submitAnswer" /\ gameState.status = "active"
       \/ /\ lastCall'.op = "advance"
          /\ gameState.status = "active"
          /\ gameState.currentQuestionIndex + 1 < TOTAL_QUESTIONS

CompletionPending == \E i \in 1..Len(tasks) : tasks[i].kind = "timerComplete"

\* timer.start(d, onComplete, onTick) with fresh mock callbacks
TimerStart ==
    /\ probe.calls < MaxCalls
    /\ \E d \in 0..MaxDuration :
        LET run == probe.run + 1
            w0 == [World EXCEPT !.probe.run = run,
                                !.probe.calls = @ + 1,
                                !.probe.duration = d,
                                !.probe.ticks = << >>,
                                !.probe.completes = 0,
                                !.probe.armFailed = FALSE,
                                !.probe.overPending = timer.isRunning \/ CompletionPending,
                                !.probe.active = 0,
                                !.probe.atPause = NULL,
                                !.probe.callbacks = << "onTick", "onComplete" >>]
            w1 == Timer_start(w0, d, [fn |-> "onComplete", run |-> run],
                                     [fn |-> "onTick", run |-> run])
        IN  /\ Install([w1 EXCEPT !.probe.armFailed = w0.fault /\ ~w1.fault])
            /\ lastCall' = [op |-> "start", arg |-> << d >>, open |-> FALSE]
    /\ UNCHANGED << user, tally >>

\* timer.stop()
TimerStop ==
    /\ probe.run >= 1
    /\ probe.calls < MaxCalls
    /\ LET w1 == Timer_stop(World)
       IN  Install([w1 EXCEPT !.probe.stoppedRuns = @ \cup {probe.run},
                              !.probe.calls = @ + 1,
                              !.probe.stops = @ + 1])
    /\ lastCall' = [op |-> "stop", arg |-> << >>, open |-> FALSE]
    /\ UNCHANGED << user, tally >>

\* timer.pause(), after reading getTimeRemaining()
TimerPause ==
    /\ probe.calls < MaxCalls
    /\ LET w1 == Timer_pause(World)
       IN  Install([w1 EXCEPT !.probe.calls = @ + 1,
                              !.probe.atPause = IF w1.timer.isPaused /\ ~timer.isPaused
                                                THEN getTimeRemaining(World) ELSE @])
    /\ lastCall' = [op |-> "pause", arg |-> << >>, open |-> FALSE]
    /\ UNCHANGED << user, tally >>

\* timer.resume()
TimerResume ==
    /\ probe.calls < MaxCalls
    /\ LET w1 == Timer_resume(World)
       IN  Install([w1 EXCEPT !.probe.calls = @ + 1,
                              !.probe.armFailed = @ \/ (fault /\ ~w1.fault)])
    /\ lastCall' = [op |-> "resume", arg |-> << >>, open |-> FALSE]
    /\ UNCHANGED << user, tally >>

\* the next setInterval call will throw
ArmFault ==
    /\ ~fault
    /\ probe.calls < MaxCalls
    /\ fault' = TRUE
    /\ probe' = [probe EXCEPT !.calls = @ + 1]
    /\ lastCall' = [op |-> "fault", arg |-> << >>, open |-> FALSE]
    /\ UNCHANGED << now, tasks, timer, gameState, game, tracker, ui, listeners, submissionState, user, tally >>

TimerStep == TICK_INTERVAL_MS \div StepsPerTick

\* time passes, by TimerStep ms or up to the next due task; probe.active counts the
\* time during which the timer is running and not paused
TimerClock ==
    /\ DueTasks = {}
    /\ timer.isRunning \/ tasks # << >>
    /\ LET next == IF tasks # << >> /\ NextDue <= now + TimerStep
                   THEN NextDue ELSE now + TimerStep
       IN  /\ next <= MaxTimerTime
           /\ now' = next
           /\ probe' = [probe EXCEPT !.active =
                           IF timer.isRunning /\ ~timer.isPaused
                           THEN @ + (next - now) ELSE @]
    /\ lastCall' = [op |-> "clock", arg |-> << >>, open |-> FALSE]
    /\ UNCHANGED << tasks, timer, gameState, game, tracker, ui, listeners, submissionState, user, tally,
                    fault >>

TimerNext ==
    \/ TimerStart
    \/ TimerStop
    \/ TimerPause
    \/ TimerResume
    \/ ArmFault
    \/ RunTask
    \/ TimerClock

TimerSpec == Init /\ [][TimerNext]_vars

\* ------------------------------------------------------------------------
\* Properties of the directly driven Timer
\* ------------------------------------------------------------------------
\* the run started last has not been stopped and no setInterval call of it has failed
LeftToRun == probe.run >= 1 /\ probe.run \notin probe.stoppedRuns /\ ~probe.armFailed

NonIncreasing(seq) == \A i \in 1..Len(seq) : \A j \in i..Len(seq) : seq[i] >= seq[j]

\* C12: a run left to run to expiry (no stop, no restart, any pauses and resumes)
\* passes onTick a non-increasing sequence of values that begins at the duration and,
\* once the run has ended, ends with 0; onComplete is invoked exactly once, at the end
C12_TicksCountDownToZero ==
    LeftToRun =>
        /\ probe.ticks # << >>
        /\ probe.ticks[1] = probe.duration
        /\ NonIncreasing(probe.ticks)
        /\ probe.completes <= 1
        /\ probe.completes = 1 <=> ~timer.isRunning
        /\ ~timer.isRunning => probe.ticks[Len(probe.ticks)] = 0

\* C13: pausing causes no drift: the remaining time does not change while the timer
\* stays paused, a resume leaves the value read just before the pause, and a run that
\* was paused ends only after its duration of un-paused time
C13_PauseCausesNoDrift ==
    [][ /\ (timer.isPaused /\ timer'.isPaused /\ probe'.run = probe.run)
              => timer'.timeRemaining = timer.timeRemaining
        /\ (lastCall'.op = "resume" /\ timer.isPaused /\ ~probe'.armFailed)
              => timer'.timeRemaining = probe.atPause
        /\ (LeftToRun' /\ probe'.atPause # NULL /\ ~timer'.isRunning)
              => probe'.active >= probe'.duration * MS_PER_SECOND ]_vars

\* C33: pause() changes the timer only when it is running and not paused, resume() only
\* when it is running and paused; in every other state the call leaves the timer
\* (duration, remaining, flags, pause instant, start instant, callbacks) and the tick
\* schedule as they are
C33_PauseAndResumeAreGuarded ==
    [][ /\ (lastCall'.op = "pause" /\ ~(timer.isRunning /\ ~timer.isPaused))
              => timer' = timer /\ tasks' = tasks
        /\ (lastCall'.op = "resume" /\ ~(timer.isRunning /\ timer.isPaused))
              => timer' = timer /\ tasks' = tasks
        /\ (lastCall'.op = "pause" /\ timer.isRunning /\ ~timer.isPaused)
              => /\ timer'.isPaused
                 /\ timer'.pausedTime = now
                 /\ timer'.timeRemaining = timer.timeRemaining
                 /\ IntervalTasks' = {}
        /\ (lastCall'.op = "resume" /\ timer.isRunning /\ timer.isPaused /\ ~fault)
              => ~timer'.isPaused /\ timer'.isRunning ]_vars

\* pause() was called on a timer that was already paused, with time gone by since
C33_Witness ==
    /\ lastCall.op = "pause"
    /\ timer.isPaused
    /\ timer.isRunning
    /\ timer.pausedTime < now
    /\ probe.atPause = timer.timeRemaining

\* C14: after stop() the timer is not running, not paused and has 0 remaining; stop()
\* on a timer that is already stopped changes neither the timer nor its pending
\* callbacks; no callback of a stopped run is invoked, whatever happens afterwards
C14_StopIsFinal ==
    [][ /\ lastCall'.op = "stop"
              => ~timer'.isRunning /\ ~timer'.isPaused /\ timer'.timeRemaining = 0
        /\ (lastCall'.op = "stop" /\ ~timer.isRunning)
              => timer' = timer /\ tasks' = tasks
        /\ probe'.afterStop = 0 ]_vars

\* the zero-delay completion of a run ran after the run was stopped twice
C14_Witness ==
    /\ lastCall.op = "timerComplete"
    /\ probe.run \in probe.stoppedRuns
    /\ probe.stops = 2
    /\ probe.completes = 0

\* C15: when start() replaces a run that is still pending, no callback of the
\* replaced run is invoked again, and the new run's onComplete is invoked at most
\* once and only at the new run's own expiry: after its duration of un-paused time,
\* with 0 as the last value passed to onTick
C15_RestartSupersedesPendingRun ==
    /\ probe.stale = 0
    /\ (LeftToRun /\ probe.overPending) =>
          /\ probe.completes <= 1
          /\ probe.completes = 1 =>
                /\ probe.active >= probe.duration * MS_PER_SECOND
                /\ probe.ticks[Len(probe.ticks)] = 0

\* C16: start(0, onComplete, onTick) passes 0 to onTick before it returns and does
\* not invoke onComplete: it leaves the timer running with the completion scheduled;
\* onComplete of a zero-duration run left to run is invoked once, in a later step of
\* the event loop, and the timer is not active afterwards
C16_ZeroDurationCompletesLater ==
    [][ /\ (lastCall'.op = "start" /\ lastCall'.arg = << 0 >>)
              => /\ probe'.ticks = << 0 >>
                 /\ probe'.completes = 0
                 /\ isActive(World')
                 /\ CompletionPending'
        /\ (LeftToRun' /\ probe'.duration = 0)
              => /\ probe'.completes <= 1
                 /\ probe'.completes = 0 => isActive(World') /\ CompletionPending'
                 /\ probe'.completes = 1 => ~isActive(World')
                 /\ (probe'.completes = 1 /\ probe.completes = 0)
                       => lastCall'.op = "timerComplete" ]_vars

C16_Witness ==
    /\ lastCall.op = "timerComplete"
    /\ LeftToRun
    /\ probe.duration = 0
    /\ probe.ticks = << 0 >>
    /\ probe.completes = 1
    /\ ~isActive(World)

\* C17: when setInterval fails in start() or in resume(), the timer ends not running
\* and the onComplete passed to that start() has been invoked exactly once
C17_ArmFailureStillCompletes ==
    (probe.armFailed /\ probe.run \notin probe.stoppedRuns) =>
        /\ ~timer.isRunning
        /\ probe.completes = 1

\* C39: in every reachable state of the Timer, paused implies running; a timer that
\* is not running has remaining 0, both callbacks cleared and no interval armed (neither
\* an interval id held nor an interval in the browser's queue); and an interval is
\* armed only while the timer is running and not paused.
C39_TimerStateIsConsistent ==
    /\ timer.isPaused => timer.isRunning
    /\ ~timer.isRunning =>
          /\ timer.timeRemaining = 0
          /\ timer.onTickCallback = NoCallback
          /\ timer.onCompleteCallback = NoCallback
          /\ timer.intervalId = NULL
          /\ IntervalTasks = {}
    /\ (timer.intervalId # NULL \/ IntervalTasks # {}) =>
          timer.isRunning /\ ~timer.isPaused

\* pause() on a run that has ticked: paused, still running, nothing armed
C39_Witness ==
    /\ lastCall.op = "pause"
    /\ timer.isPaused /\ timer.isRunning
    /\ Len(probe.ticks) >= 2
    /\ timer.timeRemaining > 0
    /\ IntervalTasks = {}

\* ------------------------------------------------------------------------
\* A Timer driven directly with callbacks that throw or are not functions
\* ------------------------------------------------------------------------
\* the callbacks passed to start(): the tick callback and the completion callback
MockCallbacks ==
    { << "onTick", "onComplete" >>,
      << "onTickThrows", "onComplete" >>,
      << "onTick", "onCompleteThrows" >>,
      << "notAFunction", "notAFunction" >> }

\* timer.start(d, onComplete, onTick) with one of the pairs of callbacks
TimerStartWith ==
    /\ probe.calls < MaxCalls
    /\ \E d \in 0..MaxDuration, pair \in MockCallbacks :
        LET run == probe.run + 1
            w0 == [World EXCEPT !.probe.run = run,
                                !.probe.calls = @ + 1,
                                !.probe.duration = d,
                                !.probe.ticks = << >>,
                                !.probe.completes = 0,
                                !.probe.armFailed = FALSE,
                                !.probe.overPending = timer.isRunning \/ CompletionPending,
                                !.probe.active = 0,
                                !.probe.atPause = NULL,
                                !.probe.callbacks = pair]
            w1 == Timer_start(w0, d, [fn |-> pair[2], run |-> run],
                                     [fn |-> pair[1], run |-> run])
        IN  /\ Install(w1)
            /\ lastCall' = [op |-> "start", arg |-> << d >>, open |-> FALSE]
    /\ UNCHANGED << user, tally >>

ThrowNext ==
    \/ TimerStartWith
    \/ TimerStop
    \/ RunTask
    \/ TimerClock

ThrowSpec == Init /\ [][ThrowNext]_vars

\* the run started last was started on an idle timer, with a duration above 0, and
\* has not been stopped
RunsAlone == LeftToRun /\ ~probe.overPending /\ probe.duration > 0

\* what tick() computes from the clock
Remaining == Max(0, timer.duration - ((now - timer.startTime) \div MS_PER_SECOND))

\* C30: a callback that throws does not break the timer. With an onTick that throws,
\* start() leaves the timer running with the duration remaining and the tick armed;
\* each tick of a run still sets the remaining time from the clock and passes it to
\* onTick, leaves the timer ticking while time remains, and at expiry onComplete is
\* invoked, once in all. With an onComplete that throws or is not a function the
\* timer is stopped at expiry all the same: not running, 0 remaining
C30_CallbackFailuresAreContained ==
    [][ /\ (lastCall'.op = "start" /\ probe'.duration > 0)
              => /\ isActive(World')
                 /\ getTimeRemaining(World') = probe'.duration
                 /\ Cardinality(IntervalTasks') = 1
                 /\ timer'.onTickCallback.fn # "notAFunction"
                       => probe'.ticks = << probe'.duration >>
        /\ (lastCall'.op = "interval" /\ RunsAlone /\ ~timer.isPaused /\ timer.isRunning)
              => IF Remaining > 0
                 THEN /\ isActive(World')
                      /\ getTimeRemaining(World') = Remaining
                      /\ Cardinality(IntervalTasks') = 1
                      /\ probe'.completes = 0
                      /\ timer.onTickCallback.fn # "notAFunction"
                            => probe'.ticks = Append(probe.ticks, Remaining)
                 ELSE /\ ~isActive(World')
                      /\ getTimeRemaining(World') = 0
                      /\ IntervalTasks' = {}
                      /\ timer.onTickCallback.fn # "notAFunction"
                            => probe'.ticks = Append(probe.ticks, 0)
                      /\ timer.onCompleteCallback.fn # "notAFunction"
                            => probe'.completes = 1 /\ probe.completes = 0
        /\ lastCall'.op = "timerComplete"
              => ~isActive(World') /\ getTimeRemaining(World') = 0
        /\ RunsAlone' => probe'.completes <= 1
        /\ (RunsAlone' /\ probe'.completes = 1) => ~isActive(World') ]_vars

\* a run whose onTick threw at every call has expired: two calls of onTick, one of
\* onComplete, the timer stopped
C30_Witness ==
    /\ lastCall.op = "interval"
    /\ RunsAlone
    /\ probe.callbacks = << "onTickThrows", "onComplete" >>
    /\ probe.duration = 1
    /\ probe.ticks = << 1, 0 >>
    /\ probe.completes = 1
    /\ ~isActive(World)
    /\ getTimeRemaining(World) = 0

\* ------------------------------------------------------------------------
\* A Timer driven directly whose run is extended with addTime
\* ------------------------------------------------------------------------
\* timer.addTime(seconds)
TimerAddTime ==
    /\ probe.calls < MaxCalls
    /\ \E seconds \in 1..MaxAdd :
          /\ Install([Timer_addTime(World, seconds) EXCEPT !.probe.calls = @ + 1])
          /\ lastCall' = [op |-> "addTime", arg |-> << seconds >>, open |-> FALSE]
    /\ UNCHANGED << user, tally >>

AddTimeNext ==
    \/ TimerStart
    \/ TimerStop
    \/ TimerPause
    \/ TimerResume
    \/ TimerAddTime
    \/ RunTask
    \/ TimerClock

AddTimeSpec == Init /\ [][AddTimeNext]_vars

\* C34: addTime(s) on a running timer adds s to the duration, sets the remaining time to
\* the new duration less the whole seconds elapsed (the seconds up to the pause, on a
\* paused timer), not below 0, and passes that value to onTick; on a timer that is not
\* running it changes nothing and calls nothing
C34_AddTimeExtendsRunningTimer ==
    [][ lastCall'.op = "addTime" =>
          IF timer.isRunning
          THEN LET at == IF timer.isPaused THEN timer.pausedTime ELSE now
                   left == (timer.duration + lastCall'.arg[1])
                              - ((at - timer.startTime) \div MS_PER_SECOND)
               IN  /\ timer' = [timer EXCEPT
                                   !.duration = @ + lastCall'.arg[1],
                                   !.timeRemaining = IF left < 0 THEN 0 ELSE left]
                   /\ tasks' = tasks
                   /\ probe'.ticks = Append(probe.ticks, timer'.timeRemaining)
                   /\ probe'.completes = probe.completes
          ELSE /\ timer' = timer
               /\ tasks' = tasks
               /\ probe' = [probe EXCEPT !.calls = @ + 1] ]_vars

\* a second was added to a 2-second run after 1 second: 3 seconds in all, 2 remaining
C34_Witness ==
    /\ lastCall.op = "addTime"
    /\ timer.isRunning
    /\ probe.duration = 2
    /\ timer.duration = 2 + lastCall.arg[1]
    /\ now - timer.startTime >= MS_PER_SECOND
    /\ probe.ticks = << 2, 1, timer.timeRemaining >>
    /\ timer.timeRemaining = 1 + lastCall.arg[1]

\* ------------------------------------------------------------------------
\* The submit handler called directly, as the error handling test does
\* ------------------------------------------------------------------------
\* handleSubmitAnswer with a submission that changes nothing
HandleSubmitAnswer ==
    /\ LET call == handleRapidSubmissionProtection(World)
       IN  /\ Install(call.w)
           /\ lastCall' = [op |-> "handleSubmitAnswer", arg |-> << >>,
                           open |-> call.executed, result |-> call.allowed]
    /\ UNCHANGED << user, tally >>

\* time passes, up to the next due timeout or by a part of the debounce time
SubmissionClock ==
    /\ DueTasks = {}
    /\ LET step == DEBOUNCE_MS \div StepsPerDebounce
           next == IF tasks # << >> /\ NextDue <= now + step THEN NextDue ELSE now + step
       IN  /\ next <= MaxSubmitTime
           /\ now' = next
    /\ lastCall' = [op |-> "clock", arg |-> << >>, open |-> FALSE]
    /\ UNCHANGED << tasks, timer, gameState, game, tracker, ui, listeners, submissionState,
                    user, tally, fault, probe >>

SubmissionNext == HandleSubmitAnswer \/ RunTask \/ SubmissionClock

SubmissionSpec == Init /\ [][SubmissionNext]_vars

\* C35: the callback is executed only when DEBOUNCE_MS or more have passed since the last
\* accepted submission and no accepted submission is still marked processing; of calls
\* made back to back only the first can execute it; a call returns true exactly when it
\* executed the callback, and a blocked call leaves lastSubmissionTime and
\* submissionCount as they were
C35_RapidSubmissionsAreBlocked ==
    [][ lastCall'.op = "handleSubmitAnswer" =>
          /\ lastCall'.result <=> lastCall'.open
          /\ lastCall'.open =>
                /\ (PageLoadTime + now) - submissionState.lastSubmissionTime >= DEBOUNCE_MS
                /\ ~submissionState.isProcessing
                /\ submissionState'.isProcessing
                /\ submissionState'.lastSubmissionTime = PageLoadTime + now
          /\ ~lastCall'.open =>
                /\ submissionState'.lastSubmissionTime = submissionState.lastSubmissionTime
                /\ submissionState'.submissionCount = submissionState.submissionCount
          /\ lastCall.op = "handleSubmitAnswer" => ~lastCall'.open ]_vars

\* a call made half a second after an accepted one, still marked processing, was blocked
C35_Witness ==
    /\ lastCall.op = "handleSubmitAnswer"
    /\ ~lastCall.open
    /\ ~lastCall.result
    /\ submissionState.isProcessing
    /\ submissionState.submissionCount >= 2
    /\ (PageLoadTime + now) - submissionState.lastSubmissionTime >= DEBOUNCE_MS

\* ------------------------------------------------------------------------
\* A ScoreTracker driven directly, as the score tracker tests do
\* ------------------------------------------------------------------------
\* the questions of the mock kind, and no question at all
MockQuestions ==
    { generateQuestion(<< 0, 1 >>, 0, 4), generateQuestion(<< 0, 2 >>, 1, 1), NullQuestion }

\* what the callers of the repository pass: an answer that is right or wrong, or a
\* timeout with no answer
Outcomes ==
    { [ userAnswer |-> << "B" >>, isCorrect |-> TRUE, timeUsed |-> 3, timedOut |-> FALSE ],
      [ userAnswer |-> << "C" >>, isCorrect |-> FALSE, timeUsed |-> 7, timedOut |-> FALSE ],
      [ userAnswer |-> << >>, isCorrect |-> FALSE, timeUsed |-> QUESTION_TIME_LIMIT,
        timedOut |-> TRUE ] }

TrackerInitialize ==
    /\ tracker' = initialize(tracker, TOTAL_QUESTIONS, now)
    /\ lastCall' = [op |-> "initialize", arg |-> << >>, open |-> FALSE]
    /\ UNCHANGED << now, tasks, timer, gameState, game, ui, listeners, submissionState, user, tally, fault,
                    probe >>

\* recordAnswer(question, ...); lastCall.open tells that the call threw
TrackerRecord ==
    /\ Len(tracker.answerRecords) < MaxRecords
    /\ \E question \in MockQuestions, outcome \in Outcomes :
          /\ tracker' = recordAnswer(tracker, question, outcome.userAnswer, outcome.isCorrect,
                                     outcome.timeUsed, outcome.timedOut, now)
          /\ lastCall' = [op |-> "recordAnswer",
                          arg |-> IF question = NullQuestion THEN << >> ELSE question.displayValue,
                          open |-> recordAnswerThrows(question)]
    /\ UNCHANGED << now, tasks, timer, gameState, game, ui, listeners, submissionState, user, tally, fault,
                    probe >>

TrackerComplete ==
    /\ tracker' = completeQuiz(tracker, now)
    /\ lastCall' = [op |-> "completeQuiz", arg |-> << >>, open |-> FALSE]
    /\ UNCHANGED << now, tasks, timer, gameState, game, ui, listeners, submissionState, user, tally, fault,
                    probe >>

TrackerReset ==
    /\ tracker' = ScoreTracker_reset(tracker)
    /\ lastCall' = [op |-> "reset", arg |-> << >>, open |-> FALSE]
    /\ UNCHANGED << now, tasks, timer, gameState, game, ui, listeners, submissionState, user, tally, fault,
                    probe >>

TrackerNext == TrackerInitialize \/ TrackerRecord \/ TrackerComplete \/ TrackerReset

TrackerSpec == Init /\ [][TrackerNext]_vars

\* C25: in every state of the tracker the score has correct + incorrect + timeout =
\* total = the number of records, incorrect is the number of records that are neither
\* correct nor timed out, and percentage is 100 * correct / total rounded to the
\* nearest integer (halves up), or 0 for an empty log
C25_ScoreAddsUp ==
    LET score == getScore(tracker)
        wrong == {i \in 1..Len(Records) : ~Records[i].isCorrect /\ ~Records[i].timedOut}
    IN  /\ score.correct + score.incorrect + score.timeout = score.total
        /\ score.total = Len(Records)
        /\ score.incorrect = Cardinality(wrong)
        /\ score.total = 0 => score.percentage = 0
        /\ score.total > 0 =>
              /\ 2 * score.percentage * score.total <= 200 * score.correct + score.total
              /\ 200 * score.correct + score.total < 2 * (score.percentage + 1) * score.total

\* a log with a correct answer, a wrong one and a timeout: 1 of 3 is 33 percent
C25_Witness ==
    /\ Len(Records) = 3
    /\ getScore(tracker).correct = 1
    /\ getScore(tracker).incorrect = 1
    /\ getScore(tracker).timeout = 1
    /\ getScore(tracker).percentage = 33

\* C26: recordAnswer with no question throws and leaves the log as it was: no record
\* is appended and the records it holds are untouched
C26_RecordWithoutQuestionFails ==
    [][ (lastCall'.op = "recordAnswer" /\ lastCall'.arg = << >>)
           => /\ lastCall'.open
              /\ tracker' = tracker ]_vars

\* the call threw on a log that already holds records
C26_Witness ==
    /\ lastCall.op = "recordAnswer"
    /\ lastCall.arg = << >>
    /\ lastCall.open
    /\ Len(Records) >= 2

\* C31: between initialize and reset calls the answer log is append-only: a recordAnswer
\* that returns appends one record at the end, numbered with the new length of the log,
\* and leaves the records before it as they were; no other call but initialize and reset
\* changes the log; so the records are always numbered 1..n in order
C31_LogIsAppendOnly ==
    [][ /\ (lastCall'.op = "recordAnswer" /\ ~lastCall'.open)
              => /\ Len(Records') = Len(Records) + 1
                 /\ SubSeq(Records', 1, Len(Records)) = Records
                 /\ Records'[Len(Records')].questionNumber = Len(Records) + 1
        /\ lastCall'.op \notin {"recordAnswer", "initialize", "reset"} => Records' = Records
        /\ \A i \in 1..Len(Records') : Records'[i].questionNumber = i ]_vars

\* a third record was appended to a log of two
C31_Witness ==
    /\ lastCall.op = "recordAnswer"
    /\ ~lastCall.open
    /\ Len(Records) = 3
    /\ Records[3].questionNumber = 3
    /\ Records[1].questionNumber = 1

\* ------------------------------------------------------------------------
\* A QuestionGenerator called directly, as the question generator tests do
\* ------------------------------------------------------------------------
\* what validateAnswer is given: a string of at most MaxAnswerLen characters, or
\* null / undefined
AnswerArgs ==
    UNION { [1..k -> { " ", "a", "A", "B", "1" }] : k \in 0..MaxAnswerLen } \cup { NullStr }

\* what isValidNumber is given: a string of at most MaxInputLen characters, or
\* something that is not a string
InputArgs ==
    UNION { [1..k -> { " ", "0", "1", "2", "6", "7", "+", "-", ".", "a" }] :
               k \in 0..MaxInputLen } \cup { NullStr }

\* each call is made on a generator of its own
ValidateAnswer ==
    /\ lastCall.op = "init"
    /\ \E userAnswer \in AnswerArgs, correctAnswer \in AnswerArgs :
          lastCall' = [op |-> "validateAnswer", arg |-> << userAnswer, correctAnswer >>,
                       open |-> FALSE, result |-> validateAnswer(userAnswer, correctAnswer)]
    /\ UNCHANGED << now, tasks, timer, gameState, game, tracker, ui, listeners, submissionState, user, tally,
                    fault, probe >>

GenerateQuestion ==
    /\ lastCall.op = "init"
    /\ \E typeIndex \in 0..(Len(questionTypes) - 1), randomIndex \in 0..(Len(alphabet) - 1) :
          lastCall' = [op |-> "generateQuestion", arg |-> << typeIndex, randomIndex >>,
                       open |-> FALSE,
                       result |-> generateQuestion(<< now, 1 >>, typeIndex, randomIndex)]
    /\ UNCHANGED << now, tasks, timer, gameState, game, tracker, ui, listeners, submissionState, user, tally,
                    fault, probe >>

IsValidNumber ==
    /\ lastCall.op = "init"
    /\ \E input \in InputArgs :
          lastCall' = [op |-> "isValidNumber", arg |-> input, open |-> FALSE,
                       result |-> isValidNumber(input)]
    /\ UNCHANGED << now, tasks, timer, gameState, game, tracker, ui, listeners, submissionState, user, tally,
                    fault, probe >>

GeneratorNext == ValidateAnswer \/ GenerateQuestion \/ IsValidNumber

GeneratorSpec == Init /\ [][GeneratorNext]_vars

\* a letter or a number the quiz accepts as an answer
WellFormed(x) == isValidLetter(x) \/ isValidNumber(x)

\* C27: for all strings a and b, whitespace-only ones included, validateAnswer(a, b) is
\* validateAnswer(normalizeAnswer(a), normalizeAnswer(b)); validateAnswer is false when
\* an argument is empty or absent; and validateAnswer(x, x) is true for every non-empty
\* well-formed x
C27_MatchIsNormalizationInvariant ==
    lastCall.op = "validateAnswer" =>
       LET a == lastCall.arg[1]
           b == lastCall.arg[2]
       IN  /\ (a # NullStr /\ b # NullStr)
                 => lastCall.result = validateAnswer(normalizeAnswer(a), normalizeAnswer(b))
           /\ (~Truthy(a) \/ ~Truthy(b)) => ~lastCall.result
           /\ (a = b /\ a # NullStr /\ a # << >> /\ WellFormed(a)) => lastCall.result

\* C28: a generated alphabet-to-number question shows a letter of A..Z and its answer is
\* the decimal string of the letter's position; a generated number-to-alphabet question
\* shows the decimal string of a number of 1..26 and its answer is the letter at that
\* position; so the question of the other kind that shows a question's answer has the
\* question's displayValue as its answer
C28_QuestionsFollowTheMapping ==
    lastCall.op = "generateQuestion" =>
       LET q == lastCall.result
       IN  /\ q.type = "alphabet-to-number" =>
                 \E n \in MIN_NUMBER..MAX_NUMBER :
                    /\ q.displayValue = << alphabet[n] >>
                    /\ q.correctAnswer = toString(n)
           /\ q.type = "number-to-alphabet" =>
                 \E n \in MIN_NUMBER..MAX_NUMBER :
                    /\ q.displayValue = toString(n)
                    /\ q.correctAnswer = << alphabet[n] >>
           /\ \A other \in AllQuestions :
                 (other.type # q.type /\ other.displayValue = q.correctAnswer)
                    => other.correctAnswer = q.displayValue

\* the generator has produced "What letter is number 26?"
C28_Witness ==
    /\ lastCall.op = "generateQuestion"
    /\ lastCall.result.type = "number-to-alphabet"
    /\ lastCall.result.displayValue = << "2", "6" >>
    /\ lastCall.result.correctAnswer = << "Z" >>

\* C29: isValidNumber(input) is true exactly when input is a string whose trimmed text is
\* the decimal rendering of an integer of 1..26; so 0, 27, signs, decimal points, leading
\* zeros, letters, the empty string and non-strings are rejected
C29_NumbersAreCanonical ==
    lastCall.op = "isValidNumber" =>
       LET input == lastCall.arg
       IN  lastCall.result <=>
              /\ input # NullStr
              /\ \E n \in MIN_NUMBER..MAX_NUMBER : trim(input) = toString(n)

\* a number with blanks around it was accepted
C29_Witness ==
    /\ lastCall.op = "isValidNumber"
    /\ lastCall.arg = << " ", "7", " " >>
    /\ lastCall.result

====
